---------------------------- MODULE Spec2Model ----------------------------
(***************************************************************************)
(* The Batch aggregate of the commit-reveal batch coordinator              *)
(* (src/src/domain/value-objects/MEVMetrics.ts, class Batch), together     *)
(* with the value object Commitment (src/unnamed/part_001) and the shared  *)
(* utilities it calls (src/src/shared/types/index.ts).                     *)
(*                                                                         *)
(* A string the code looks into (its length, a prefix, its character       *)
(* codes) is a sequence of one-character strings.  Addresses and hashes,   *)
(* which the aggregate stores and compares whole, are kept in the state as *)
(* TLA+ strings; Chars gives the characters of one.  Dates are integers:   *)
(* milliseconds since the instant the model starts at.                     *)
(***************************************************************************)
EXTENDS Integers, Sequences, FiniteSets, TLC

(***************************************************************************)
(* Bounds of the model.                                                    *)
(***************************************************************************)
\* the clock takes steps of TickMs, at most MaxTicks of them
MaxTicks == 3
\* longest ordering handed to finalizeBatch
MaxOrderLen == 1
\* executions of SubmitCommitmentUseCase that may be in flight together
NumExecutions == 2
\* largest whole number of ETH handed to ethToWei
MaxEth == 12
\* batches the contract creates
MaxBatches == 2
\* retry is called with maxAttempts from 0 to MaxAttempts
MaxAttempts == 3

(***************************************************************************)
(* Program constants.                                                      *)
(***************************************************************************)
\* addMinutes: minutes * 60000
MsPerMinute == 60000
\* Batch.create: params.commitmentDurationMinutes ?? 30
DefaultCommitmentMinutes == 30
\* Batch.create: params.revealDurationMinutes ?? 15
DefaultRevealMinutes == 15
\* Commitment.create: props.hash.length !== 66
CommitmentHashLength == 66
\* generateCommitmentHash: padStart(8, '0')
PadLength == 8
\* isValidEthereumAddress: 0x followed by {40} hex digits
AddressHexDigits == 40
\* SubmitCommitmentUseCase.validateRequest: request.nonce.length < 10
MinNonceLength == 10
\* weiToEth, ethToWei: 10 ** 18
EthDecimals == 18
\* FairOrderingProtocol: defaultCommitmentDuration = 30 minutes, in seconds
ChainCommitmentDuration == 1800
\* FairOrderingProtocol: defaultRevealDuration = 15 minutes, in seconds
ChainRevealDuration == 900
\* FairOrderingProtocol: endTime = startTime + 1 hours, in seconds
BatchLifetime == 3600
\* FairOrderingProtocol._createNextBatch: block.timestamp + 5 minutes, in seconds
GracePeriod == 300
\* FairOrderingProtocol: minCommitmentFee = 0.01 ether, in units of 0.01 ether
InitialMinCommitmentFee == 1

\* the step of the model's clock: one default reveal window
TickMs == DefaultRevealMinutes * MsPerMinute

(***************************************************************************)
(* Characters and strings.                                                 *)
(***************************************************************************)
Digits == <<"0","1","2","3","4","5","6","7","8","9">>
Lower == <<"a","b","c","d","e","f","g","h","i","j","k","l","m",
           "n","o","p","q","r","s","t","u","v","w","x","y","z">>
Upper == <<"A","B","C","D","E","F","G","H","I","J","K","L","M",
           "N","O","P","Q","R","S","T","U","V","W","X","Y","Z">>
HexDigits == <<"0","1","2","3","4","5","6","7","8","9","a","b","c","d","e","f">>

Range(s) == {s[i] : i \in 1..Len(s)}
IndexOf(s, c) == CHOOSE i \in 1..Len(s) : s[i] = c
Repeat(c, n) == [i \in 1..n |-> c]

RECURSIVE Str(_)
\* the string whose characters are s
Str(s) ==
  IF Len(s) = 0 THEN ""
  ELSE IF Len(s) = 1 THEN s[1]
  ELSE LET m == Len(s) \div 2
       IN  Str(SubSeq(s, 1, m)) \o Str(SubSeq(s, m + 1, Len(s)))

(***************************************************************************)
(* The strings the model's calls are made with.                            *)
(***************************************************************************)
Address(c) == <<"0", "x">> \o Repeat(c, AddressHexDigits)
\* syntactically valid user addresses: two that differ only in letter case
UserTexts == {Address("a"), Address("A")}
\* a string that is no address
BadAddressText == <<"0", "x", "a">>

\* 66-character, 0x-prefixed strings: what Commitment.create accepts as a hash
WellFormedHashTexts ==
  {<<"0", "x">> \o Repeat(c, CommitmentHashLength - 2) : c \in {"1", "2"}}

\* the fields of the model's transactions and the nonces users commit with
ToText == Address("b")
ValueTexts == {<<"1","0","0","0">>, <<"2","0","0","0">>}
DataText == <<"0", "x">>
GasLimitText == <<"2","1","0","0","0">>
GasPriceText == <<"1","0","0","0","0","0","0","0","0","0">>
NonceTexts == {<<"a","b","c","d","e","f","1","2","3","4">>,
               <<"w","r","o","n","g","w","r","o","n","g","w">>}

\* a gas limit validateRequest refuses, and a commitment nonce that is too short
ZeroText == <<"0">>
ShortNonceText == <<"s","h","o","r","t">>

TransactionData(value) ==
  [to |-> Str(ToText), value |-> value, data |-> Str(DataText),
   gasLimit |-> Str(GasLimitText), gasPrice |-> Str(GasPriceText), nonce |-> 0]
Txs == {TransactionData(Str(v)) : v \in ValueTexts}
Nonces == {Str(n) : n \in NonceTexts}

\* the characters of the strings the model's calls are made with
InputTexts ==
  UserTexts \cup {BadAddressText, ToText, DataText, GasLimitText, GasPriceText,
                  ZeroText, ShortNonceText}
  \cup WellFormedHashTexts \cup ValueTexts \cup NonceTexts
\* a table is a set of <<key, value>> pairs
Lookup(table, key) == (CHOOSE entry \in table : entry[1] = key)[2]

InputCharTable == {<<Str(t), t>> : t \in InputTexts}
InputChars(s) == Lookup(InputCharTable, s)

(***************************************************************************)
(* String utilities.                                                       *)
(***************************************************************************)
\* String.prototype.charCodeAt for the characters the model's strings use
charCodeAt(c) ==
  IF c \in Range(Digits) THEN 47 + IndexOf(Digits, c)
  ELSE IF c \in Range(Upper) THEN 64 + IndexOf(Upper, c)
  ELSE IF c \in Range(Lower) THEN 96 + IndexOf(Lower, c)
  ELSE CASE c = "\"" -> 34
         [] c = "," -> 44
         [] c = ":" -> 58
         [] c = "{" -> 123
         [] c = "}" -> 125

\* String.prototype.startsWith
startsWith(s, p) == Len(s) >= Len(p) /\ SubSeq(s, 1, Len(p)) = p

\* String.prototype.padStart with a one-character filler
padStart(s, n, c) == IF Len(s) >= n THEN s ELSE Repeat(c, n - Len(s)) \o s

\* Number.prototype.toString(10) of a non-negative integer
RECURSIVE toString10(_)
toString10(n) ==
  IF n < 10 THEN <<Digits[n + 1]>>
  ELSE toString10(n \div 10) \o <<Digits[(n % 10) + 1]>>


(***************************************************************************)
(* generateCommitmentHash (shared utils): a 32-bit rolling hash.           *)
(* A 32-bit value is kept as <<high 16 bits, low 16 bits>> of its          *)
(* unsigned form, so that no intermediate value leaves 32 bits.            *)
(***************************************************************************)
Half == 65536

\* hash = ((hash << 5) - hash) + char; hash = hash & hash
\* i.e. ToInt32(31 * hash + char), on the unsigned form modulo 2^32
HashStep(h, code) ==
  LET t == h[2] * 31 + code
  IN  << (h[1] * 31 + (t \div Half)) % Half, t % Half >>

RECURSIVE HashLoop(_, _, _, _)
\* the value of hash after the loop body has run for i = lo .. hi (1-based),
\* starting from h.  The range is halved so that the evaluation stays shallow;
\* the test on left makes TLC compute the first half before the second.
HashLoop(input, h, lo, hi) ==
  IF lo > hi THEN h
  ELSE IF lo = hi THEN HashStep(h, charCodeAt(input[lo]))
  ELSE LET mid  == (lo + hi) \div 2
           left == HashLoop(input, h, lo, mid)
       IN  IF Len(left) = 2 THEN HashLoop(input, left, mid + 1, hi) ELSE left

\* Math.abs of the signed 32-bit value whose unsigned form is h
MathAbs(h) ==
  IF h[1] < Half \div 2 THEN h
  ELSE IF h[2] = 0 THEN << (Half - h[1]) % Half, 0 >>
  ELSE << Half - 1 - h[1], Half - h[2] >>

RECURSIVE Hex16(_, _)
\* the n low hexadecimal digits of v, most significant first
Hex16(v, n) ==
  IF n = 0 THEN << >>
  ELSE Hex16(v \div 16, n - 1) \o <<HexDigits[(v % 16) + 1]>>

RECURSIVE StripZeros(_)
StripZeros(s) ==
  IF Len(s) > 1 /\ s[1] = "0" THEN StripZeros(Tail(s)) ELSE s

\* Number.prototype.toString(16) of a magnitude below 2^32
toString16(h) == StripZeros(Hex16(h[1], 4) \o Hex16(h[2], 4))

generateCommitmentHash(transactionData, nonce) ==
  LET input == transactionData \o nonce
      hash  == HashLoop(input, <<0, 0>>, 1, Len(input))
  IN  padStart(toString16(MathAbs(hash)), PadLength, "0")

(***************************************************************************)
(* JSON.stringify of a TransactionData object whose keys were inserted in  *)
(* the order of the interface: to, value, data, gasLimit, gasPrice, nonce. *)
(* The first five are strings (quoted), nonce is a number.                 *)
(***************************************************************************)
Quote == "\""
JsonKey(name) == <<Quote>> \o name \o <<Quote, ":">>
JsonString(s) == <<Quote>> \o s \o <<Quote>>

JSONstringify(tx) ==
  <<"{">> \o JsonKey(<<"t","o">>) \o JsonString(InputChars(tx.to))
  \o <<",">> \o JsonKey(<<"v","a","l","u","e">>) \o JsonString(InputChars(tx.value))
  \o <<",">> \o JsonKey(<<"d","a","t","a">>) \o JsonString(InputChars(tx.data))
  \o <<",">> \o JsonKey(<<"g","a","s","L","i","m","i","t">>) \o JsonString(InputChars(tx.gasLimit))
  \o <<",">> \o JsonKey(<<"g","a","s","P","r","i","c","e">>) \o JsonString(InputChars(tx.gasPrice))
  \o <<",">> \o JsonKey(<<"n","o","n","c","e">>) \o toString10(tx.nonce)
  \o <<"}">>

(***************************************************************************)
(* The inputs the model draws from.                                        *)
(***************************************************************************)
\* generateCommitmentHash(JSON.stringify(tx), nonce) for the model's
\* transactions and nonces, computed once: its characters, and as a string
DigestCharTable ==
  {<<p, generateCommitmentHash(JSONstringify(p[1]), InputChars(p[2]))>> : p \in Txs \X Nonces}
DigestTable == {<<entry[1], Str(entry[2])>> : entry \in DigestCharTable}
Digest(transactionData, nonce) == Lookup(DigestTable, <<transactionData, nonce>>)

\* the characters of a string: of an input, or of a digest
CharTable == InputCharTable \cup {<<Str(entry[2]), entry[2]>> : entry \in DigestCharTable}
Chars(s) == Lookup(CharTable, s)

Users == {Str(t) : t \in UserTexts}
BadAddress == Str(BadAddressText)
WellFormedHashes == {Str(t) : t \in WellFormedHashTexts}
Digests == {entry[2] : entry \in DigestTable}
\* the strings callers pass as a commitment hash
HashInputs == WellFormedHashes \cup Digests

\* MEVMetrics objects (MEVMetrics.create accepted them); wei amounts as numbers
MetricsInputs ==
  {[extractedValue |-> 7, savingsGenerated |-> 3, totalTransactions |-> 1,
    successfulTransactions |-> 1, averageGasPrice |-> 0, totalGasUsed |-> 0]}

BoundedSeq(S, n) == UNION {[1..k -> S] : k \in 0..n}
OrderingInputs == BoundedSeq(WellFormedHashes, MaxOrderLen)

\* an optional number is the empty set (undefined) or a singleton
\* a ?? b
OrElse(opt, default) == IF opt = {} THEN default ELSE CHOOSE v \in opt : TRUE

(***************************************************************************)
(* Validation utilities and the Commitment value object.                   *)
(***************************************************************************)
\* [a-fA-F0-9]
AddressChars == Range(HexDigits) \cup {"A", "B", "C", "D", "E", "F"}

\* /^0x[a-fA-F0-9]{40}$/
isValidEthereumAddress(address) ==
  /\ Len(address) = 2 + AddressHexDigits
  /\ address[1] = "0"
  /\ address[2] = "x"
  /\ \A i \in 3..Len(address) : address[i] \in AddressChars

\* Commitment.create: the message of the Error it throws, "" when it returns a
\* Commitment.  clock is the value of new Date() at the call.
CommitmentCreateError(props, clock) ==
  IF \/ Len(Chars(props.hash)) = 0
     \/ Len(Chars(props.hash)) # CommitmentHashLength
     \/ ~ startsWith(Chars(props.hash), <<"0", "x">>)
    THEN "Invalid commitment hash format"
  ELSE IF ~ isValidEthereumAddress(Chars(props.userAddress)) THEN "Invalid user address"
  ELSE IF props.timestamp > clock THEN "Invalid timestamp"
  ELSE ""

CommitmentCreateOk(props, clock) == CommitmentCreateError(props, clock) = ""

(***************************************************************************)
(* Error messages (shared errors and the aggregate's Result.fail strings). *)
(***************************************************************************)
MsgNotInCommitmentPhase == "Batch is not in commitment phase"
MsgCommitmentAlreadyExists == "User ${userAddress} already has a commitment for batch ${batchId}"
MsgRevealPhaseNotActive == "Batch ${batchId} is not in reveal phase"
MsgNoMatchingCommitment == "No matching commitment found for user"
MsgTransactionRevealMismatch == "Revealed transaction does not match commitment hash"
MsgInvalidBatchStatus == "Expected batch status to be ${expectedStatus}, but got ${actualStatus}"

(***************************************************************************)
(* The state: one Batch aggregate and the clock.                           *)
(***************************************************************************)
VARIABLES
  now,                      \* new Date(), in ms
  created,                  \* Batch.create has returned a batch
  startTime, endTime, commitmentPhaseEnd, revealPhaseEnd,
  status,
  commitments,              \* Map userAddress -> Commitment
  revealedTransactions,     \* Map commitmentHash -> RevealedTransaction
  finalOrderedTransactions,
  metrics,                  \* {} (undefined) or {m}
  createdAt, updatedAt,
  domainEvents,             \* AggregateRoot._domainEvents
  lastCall,                 \* the call made in the last step and what it returned
  executions,               \* the executions of SubmitCommitmentUseCase.execute
  conversion,               \* the last call of ethToWei / weiToEth and its result
  chain,                    \* the storage of the FairOrderingProtocol contract
  held,                     \* the array a caller of the batch holds, and what it shares
  retrying                  \* the call of retry(fn, maxAttempts, delay) under way

times == <<startTime, endTime, commitmentPhaseEnd, revealPhaseEnd>>
batchVars == <<created, startTime, endTime, commitmentPhaseEnd, revealPhaseEnd,
               status, commitments, revealedTransactions, finalOrderedTransactions,
               metrics, createdAt, updatedAt, domainEvents>>
vars == <<now, batchVars, lastCall, executions, conversion, chain, held, retrying>>

COMMITMENT_PHASE == "COMMITMENT_PHASE"
REVEAL_PHASE == "REVEAL_PHASE"
EXECUTION_PHASE == "EXECUTION_PHASE"
COMPLETED == "COMPLETED"
CANCELLED == "CANCELLED"
BatchStatus == {COMMITMENT_PHASE, REVEAL_PHASE, EXECUTION_PHASE, COMPLETED, CANCELLED}

EmptyMap == << >>
MapSet(m, k, v) == [x \in DOMAIN m \cup {k} |-> IF x = k THEN v ELSE m[x]]

\* what a call returned: kind is "ok" (Result.ok), "fail" (Result.fail) or
\* "throw" (an exception left the call); error is the message template;
\* thrown is the code of the error class raised inside the call, if any
Outcome(op, kind, error, thrown, expected, actual) ==
  [op |-> op, kind |-> kind, error |-> error, thrown |-> thrown,
   expected |-> expected, actual |-> actual]
Ok(op) == Outcome(op, "ok", "", "", "", "")
Fail(op, error, thrown) == Outcome(op, "fail", error, thrown, "", "")

(***************************************************************************)
(* Time utilities.                                                         *)
(***************************************************************************)
addMinutes(date, minutes) == date + minutes * MsPerMinute
\* new Date() > expirationDate
isExpired(expirationDate) == now > expirationDate

\* Batch status checks
\* isInCommitmentPhase without the test of the status
isInCommitmentPhaseIgnoresStatus == ~ isExpired(commitmentPhaseEnd)
isInCommitmentPhase == status = COMMITMENT_PHASE /\ ~ isExpired(commitmentPhaseEnd)
\* isInRevealPhase without the test of the clock
isInRevealPhaseIgnoresClock == status = REVEAL_PHASE
isInRevealPhase == status = REVEAL_PHASE /\ ~ isExpired(revealPhaseEnd)

\* addDomainEvent putting the event in front of the buffer
addDomainEventInFront(name, data) ==
  domainEvents' = <<[eventName |-> name, eventData |-> data]>> \o domainEvents

\* AggregateRoot.addDomainEvent.  An event is kept as its name (the class name,
\* BaseDomainEvent.eventName) and its payload; the fields that only record the
\* clock at the call (occurredOn, and timestamp / revealedAt / finalizedAt in
\* the payloads) are left out: they equal updatedAt as the call sets it.
addDomainEvent(name, data) ==
  domainEvents' = Append(domainEvents, [eventName |-> name, eventData |-> data])

\* AggregateRoot.clearEvents
ClearEvents ==
  /\ created
  /\ domainEvents' = << >>
  /\ lastCall' = Ok("clearEvents")
  /\ UNCHANGED <<now, created, times, status, commitments, revealedTransactions,
                 finalOrderedTransactions, metrics, createdAt, updatedAt>>

(***************************************************************************)
(* weiToEth and ethToWei (shared utils).  Amounts are decimal strings; the *)
(* model's amounts are whole numbers of ETH with no fraction or with the   *)
(* fraction .5, .25 or .75, which parseFloat and the product with 10 ** 18 *)
(* represent exactly.                                                      *)
(***************************************************************************)
\* the position of the decimal point in s, 0 when it has none
PointAt(s) ==
  IF "." \in Range(s) THEN IndexOf(s, ".") ELSE 0

\* BigInt(Math.floor(parseFloat(eth) * 10 ** 18)).toString()
ethToWei(eth) ==
  LET whole == IF PointAt(eth) = 0 THEN eth ELSE SubSeq(eth, 1, PointAt(eth) - 1)
      frac  == IF PointAt(eth) = 0 THEN << >> ELSE SubSeq(eth, PointAt(eth) + 1, Len(eth))
  IN  StripZeros(whole \o
                 (IF Len(frac) >= EthDecimals THEN SubSeq(frac, 1, EthDecimals)
                  ELSE frac \o Repeat("0", EthDecimals - Len(frac))))

\* (BigInt(wei) / BigInt(10 ** 18)).toString(): the division of BigInts
\* drops the remainder
weiToEth(wei) ==
  IF Len(StripZeros(wei)) <= EthDecimals THEN <<"0">>
  ELSE SubSeq(StripZeros(wei), 1, Len(StripZeros(wei)) - EthDecimals)

\* the amounts of ETH the model converts
EthAmounts ==
  {toString10(n) \o f :
     n \in 0..MaxEth, f \in {<< >>, <<".", "5">>, <<".", "2", "5">>, <<".", "7", "5">>}}

NoConversion == [op |-> "none", eth |-> << >>, wei |-> << >>, back |-> << >>]

(***************************************************************************)
(* The FairOrderingProtocol contract: its storage.  Time is                *)
(* block.timestamp in seconds since the deployment, ether is counted in    *)
(* units of 0.01 ether.  A mapping is a function that holds the default    *)
(* value at the keys never written.  Events are logs, not storage, and are *)
(* left out.  The storage starts as the body of the constructor describes  *)
(* it: batch 1, created by _createInitialBatch at the deployment.          *)
(***************************************************************************)
\* the step of block.timestamp between two blocks of the model
BlockStep == ChainRevealDuration

Owner == "owner"
\* the accounts that commit and reveal
Committers == {"alice", "bob"}
\* the accounts that call the owner's functions
Admins == {Owner, "alice"}
BatchIds == 1..MaxBatches

\* abi.encodePacked of two strings: their bytes, one after the other
abiEncodePacked(a, b) == a \o b
\* keccak256, taken as free of collisions: the digest stands for its input
keccak256(bytes) == <<"keccak256", bytes>>
\* bytes32(0)
ZeroBytes32 == << >>

\* the strings revealed on chain
TxBlobs == {<<"a">>, <<"a", "b">>}
ChainNonces == {<<"c">>}
\* the commitments submitted on chain: the digest of one of the pairs, and zero
Bytes32Inputs ==
  {keccak256(abiEncodePacked(<<"a">>, n)) : n \in ChainNonces} \cup {ZeroBytes32}

\* the struct Batch as createBatch and _createNextBatch fill it
NewBatch(id, start, end, commitmentEnd, revealEnd) ==
  [id |-> id, startTime |-> start, endTime |-> end,
   commitmentPhaseEnd |-> commitmentEnd, revealPhaseEnd |-> revealEnd,
   commitments |-> << >>, revealedTransactions |-> << >>,
   orderingMethod |-> "COMMIT_REVEAL", status |-> COMMITMENT_PHASE,
   totalCommitments |-> 0, totalRevealed |-> 0]

\* the storage after the constructor
Deployed ==
  [timestamp |-> 0,
   nextBatchId |-> 2,
   currentBatchId |-> 1,
   minCommitmentFee |-> InitialMinCommitmentFee,
   defaultCommitmentDuration |-> ChainCommitmentDuration,
   defaultRevealDuration |-> ChainRevealDuration,
   paused |-> FALSE,
   balance |-> 0,
   batches |-> [b \in {1} |->
                  NewBatch(1, 0, BatchLifetime, ChainCommitmentDuration,
                           ChainCommitmentDuration + ChainRevealDuration)],
   userCommitments |-> [k \in BatchIds \X Committers |-> ZeroBytes32],
   revealedTransactions |-> [k \in BatchIds \X Committers |-> << >>],
   hasUserCommitted |-> [k \in BatchIds \X Committers |-> FALSE],
   hasUserRevealed |-> [k \in BatchIds \X Committers |-> FALSE]]

\* an execution: where it stands (idle, awaiting a collaborator, done), its
\* request, the steps it has performed so far, and the Result it returned
ExecutionIds == 1..NumExecutions
IdleExecution == [pc |-> "idle", request |-> << >>, steps |-> << >>, result |-> << >>]

\* an array in the hands of a caller: its elements, and the field of the batch
\* whose array object it is ("" for an array of its own)
\* an array in the hands of a caller: its elements, the accessor or argument it
\* came from, and the field of the batch whose array object it is ("" for an
\* array object of its own)
Array(elements, from, field) == [elements |-> elements, from |-> from, sharedWith |-> field]
NoArray == Array(<< >>, "", "")

\* a call of retry: where the loop stands, its arguments, the loop counter, the
\* way each invocation of fn settled, the sleeps awaited, and how it ended
IdleRetry ==
  [pc |-> "idle", maxAttempts |-> 0, delay |-> 0, attempt |-> 0,
   invocations |-> << >>, sleeps |-> << >>, lastError |-> "undefined",
   settled |-> << >>]

Init ==
  /\ held = NoArray
  /\ retrying = IdleRetry
  /\ executions = [e \in ExecutionIds |-> IdleExecution]
  /\ conversion = NoConversion
  /\ chain = Deployed
  /\ now = 0
  /\ created = FALSE
  /\ startTime = 0 /\ endTime = 0 /\ commitmentPhaseEnd = 0 /\ revealPhaseEnd = 0
  /\ status = COMMITMENT_PHASE
  /\ commitments = EmptyMap
  /\ revealedTransactions = EmptyMap
  /\ finalOrderedTransactions = << >>
  /\ metrics = {}
  /\ createdAt = 0 /\ updatedAt = 0
  /\ domainEvents = << >>
  /\ lastCall = Ok("new")

(***************************************************************************)
(* Batch.create                                                            *)
(***************************************************************************)
Params(start, end, commitmentMinutes, revealMinutes) ==
  [startTime |-> start, endTime |-> end,
   commitmentDurationMinutes |-> commitmentMinutes,
   revealDurationMinutes |-> revealMinutes]

\* the calls of Batch.create the model makes: default and supplied durations,
\* negative ones, a start in the future, and one call for each rejection
CreateParams ==
  { Params(now, now + 3 * TickMs, {}, {}),
    Params(now, now + 3 * TickMs, {DefaultRevealMinutes}, {DefaultRevealMinutes}),
    Params(now, now + 3 * TickMs, {-DefaultRevealMinutes}, {DefaultRevealMinutes}),
    Params(now, now + 3 * TickMs, {DefaultRevealMinutes}, {-DefaultRevealMinutes}),
    Params(now + TickMs, now + 3 * TickMs, {DefaultRevealMinutes}, {}),
    Params(now, now, {}, {}),
    Params(now - TickMs, now + 3 * TickMs, {}, {}),
    Params(now, now + TickMs, {}, {}) }

CreateCommitmentPhaseEnd(params) ==
  addMinutes(params.startTime,
             OrElse(params.commitmentDurationMinutes, DefaultCommitmentMinutes))
CreateRevealPhaseEnd(params) ==
  addMinutes(CreateCommitmentPhaseEnd(params),
             OrElse(params.revealDurationMinutes, DefaultRevealMinutes))

\* Batch.create without the check that the start is not in the past
CreateErrorNoPastCheck(params) ==
  IF params.endTime <= params.startTime THEN "End time must be after start time"
  ELSE IF CreateRevealPhaseEnd(params) > params.endTime
    THEN "Batch duration is too short for commitment and reveal phases"
  ELSE ""

\* the message of the Result.fail that Batch.create returns, "" when it succeeds
CreateError(params) ==
  IF params.endTime <= params.startTime THEN "End time must be after start time"
  ELSE IF params.startTime < now THEN "Start time cannot be in the past"
  ELSE IF CreateRevealPhaseEnd(params) > params.endTime
    THEN "Batch duration is too short for commitment and reveal phases"
  ELSE ""

Create(params) ==
  /\ ~ created
  /\ IF CreateError(params) # ""
     THEN /\ lastCall' = Fail("create", CreateError(params), "")
          /\ UNCHANGED <<now, batchVars>>
     ELSE /\ created' = TRUE
          /\ startTime' = params.startTime
          /\ endTime' = params.endTime
          /\ commitmentPhaseEnd' = CreateCommitmentPhaseEnd(params)
          /\ revealPhaseEnd' = CreateRevealPhaseEnd(params)
          /\ status' = COMMITMENT_PHASE
          /\ commitments' = EmptyMap
          /\ revealedTransactions' = EmptyMap
          /\ finalOrderedTransactions' = << >>
          /\ metrics' = {}
          /\ createdAt' = now
          /\ updatedAt' = now
          /\ addDomainEvent("BatchCreatedEvent",
                            [startTime |-> params.startTime, endTime |-> params.endTime])
          /\ lastCall' = Ok("create")
          /\ UNCHANGED now

(***************************************************************************)
(* Commitment.create followed by Batch.addCommitment                       *)
(***************************************************************************)
\* timestamp: the instant the model starts at (never in the future) or a
\* future instant
CommitmentProps ==
  [hash : HashInputs, userAddress : Users, timestamp : {0}]
  \cup [hash : WellFormedHashes, userAddress : {BadAddress}, timestamp : {0}]
  \cup [hash : WellFormedHashes, userAddress : Users, timestamp : {now + TickMs}]

\* the caller's Commitment.create(props) throws: no Commitment, no call
CommitmentCreateThrows(props) ==
  /\ created
  /\ ~ CommitmentCreateOk(props, now)
  /\ lastCall' = Outcome("Commitment.create", "throw", CommitmentCreateError(props, now),
                         "", "", "")
  /\ UNCHANGED <<now, batchVars>>

\* addCommitment without the duplicate check: a second commitment of a user
\* replaces the first
AddCommitmentErrorNoDuplicateCheck(commitment) ==
  IF ~ isInCommitmentPhase THEN MsgNotInCommitmentPhase ELSE ""

\* the message addCommitment returns in Result.fail, "" when it succeeds
AddCommitmentError(commitment) ==
  IF ~ isInCommitmentPhase THEN MsgNotInCommitmentPhase
  ELSE IF commitment.userAddress \in DOMAIN commitments THEN MsgCommitmentAlreadyExists
  ELSE ""

AddCommitment(commitment) ==
  /\ created
  /\ CommitmentCreateOk(commitment, now)
  /\ IF AddCommitmentError(commitment) # ""
     THEN /\ lastCall' = Fail("addCommitment", AddCommitmentError(commitment),
                              IF AddCommitmentError(commitment) = MsgCommitmentAlreadyExists
                              THEN "COMMITMENT_ALREADY_EXISTS" ELSE "")
          /\ UNCHANGED <<now, batchVars>>
     ELSE /\ commitments' = MapSet(commitments, commitment.userAddress, commitment)
          /\ updatedAt' = now
          /\ addDomainEvent("CommitmentAddedEvent",
                            [commitmentHash |-> commitment.hash,
                             userAddress |-> commitment.userAddress,
                             timestamp |-> commitment.timestamp])
          /\ lastCall' = Ok("addCommitment")
          /\ UNCHANGED <<now, created, times, status, revealedTransactions,
                         finalOrderedTransactions, metrics, createdAt>>

(***************************************************************************)
(* Batch.revealTransaction                                                 *)
(***************************************************************************)
\* revealTransaction looking the commitment up before it checks the phase
RevealTransactionErrorLookupFirst(commitmentHash, transactionData, userAddress, nonce) ==
  IF \/ userAddress \notin DOMAIN commitments
     \/ commitments[userAddress].hash # commitmentHash
    THEN MsgNoMatchingCommitment
  ELSE IF ~ isInRevealPhase THEN MsgRevealPhaseNotActive
  ELSE IF Digest(transactionData, nonce) # commitmentHash
    THEN MsgTransactionRevealMismatch
  ELSE ""

\* the message revealTransaction returns in Result.fail, "" when it succeeds
RevealTransactionError(commitmentHash, transactionData, userAddress, nonce) ==
  IF ~ isInRevealPhase THEN MsgRevealPhaseNotActive
  ELSE IF \/ userAddress \notin DOMAIN commitments
          \/ commitments[userAddress].hash # commitmentHash
    THEN MsgNoMatchingCommitment
  ELSE IF Digest(transactionData, nonce) # commitmentHash
    THEN MsgTransactionRevealMismatch
  ELSE ""

\* the code of the error class thrown (and caught) inside revealTransaction
RevealThrown(error) ==
  IF error = MsgRevealPhaseNotActive THEN "REVEAL_PHASE_NOT_ACTIVE"
  ELSE IF error = MsgTransactionRevealMismatch THEN "TRANSACTION_REVEAL_MISMATCH"
  ELSE ""

\* revealTransaction stamping updatedAt before its checks
RevealTransactionStampsFirst(commitmentHash, transactionData, userAddress, nonce) ==
  LET error == RevealTransactionError(commitmentHash, transactionData, userAddress, nonce)
  IN
  /\ created
  /\ updatedAt' = now
  /\ IF error # ""
     THEN /\ lastCall' = Fail("revealTransaction", error, RevealThrown(error))
          /\ UNCHANGED <<now, created, times, status, commitments, revealedTransactions,
                         finalOrderedTransactions, metrics, createdAt, domainEvents>>
     ELSE /\ revealedTransactions' =
               MapSet(revealedTransactions, commitmentHash,
                      [commitmentHash |-> commitmentHash,
                       transactionData |-> transactionData,
                       userAddress |-> userAddress,
                       revealedAt |-> now,
                       nonce |-> nonce])
          /\ addDomainEvent("TransactionRevealedEvent",
                            [commitmentHash |-> commitmentHash,
                             userAddress |-> userAddress,
                             transactionData |-> JSONstringify(transactionData)])
          /\ lastCall' = Ok("revealTransaction")
          /\ UNCHANGED <<now, created, times, status, commitments,
                         finalOrderedTransactions, metrics, createdAt>>

RevealTransaction(commitmentHash, transactionData, userAddress, nonce) ==
  LET error == RevealTransactionError(commitmentHash, transactionData, userAddress, nonce)
  IN
  /\ created
  /\ IF error # ""
     THEN /\ lastCall' = Fail("revealTransaction", error, RevealThrown(error))
          /\ UNCHANGED <<now, batchVars>>
     ELSE /\ revealedTransactions' =
               MapSet(revealedTransactions, commitmentHash,
                      [commitmentHash |-> commitmentHash,
                       transactionData |-> transactionData,
                       userAddress |-> userAddress,
                       revealedAt |-> now,
                       nonce |-> nonce])
          /\ updatedAt' = now
          /\ addDomainEvent("TransactionRevealedEvent",
                            [commitmentHash |-> commitmentHash,
                             userAddress |-> userAddress,
                             transactionData |-> JSONstringify(transactionData)])
          /\ lastCall' = Ok("revealTransaction")
          /\ UNCHANGED <<now, created, times, status, commitments,
                         finalOrderedTransactions, metrics, createdAt>>

\* the hashes a caller reveals (tx, nonce) under: any well-formed hash, or the
\* digest the hasher gives for (tx, nonce)
RevealHashInputs(tx, n) == WellFormedHashes \cup {Digest(tx, n)}

(***************************************************************************)
(* Batch.transitionToRevealPhase / transitionToExecutionPhase /            *)
(* finalizeBatch: a wrong status throws InvalidBatchStatusError            *)
(***************************************************************************)
\* InvalidBatchStatusError built with its two arguments exchanged
InvalidBatchStatusErrorSwapped(op, expected, actual) ==
  Outcome(op, "throw", MsgInvalidBatchStatus, "INVALID_BATCH_STATUS", actual, expected)

InvalidBatchStatusError(op, expected, actual) ==
  Outcome(op, "throw", MsgInvalidBatchStatus, "INVALID_BATCH_STATUS", expected, actual)

\* a transition that does not check the status it starts from
TransitionUnchecked(op, from, to) ==
  /\ created
  /\ status' = to
  /\ updatedAt' = now
  /\ addDomainEvent("BatchStatusChangedEvent", [fromStatus |-> from, toStatus |-> to])
  /\ lastCall' = Ok(op)
  /\ UNCHANGED <<now, created, times, commitments, revealedTransactions,
                 finalOrderedTransactions, metrics, createdAt>>

Transition(op, from, to) ==
  /\ created
  /\ IF status # from
     THEN /\ lastCall' = InvalidBatchStatusError(op, from, status)
          /\ UNCHANGED <<now, batchVars>>
     ELSE /\ status' = to
          /\ updatedAt' = now
          /\ addDomainEvent("BatchStatusChangedEvent",
                            [fromStatus |-> from, toStatus |-> to])
          /\ lastCall' = Ok(op)
          /\ UNCHANGED <<now, created, times, commitments, revealedTransactions,
                         finalOrderedTransactions, metrics, createdAt>>

TransitionToRevealPhase ==
  Transition("transitionToRevealPhase", COMMITMENT_PHASE, REVEAL_PHASE)

TransitionToExecutionPhase ==
  Transition("transitionToExecutionPhase", REVEAL_PHASE, EXECUTION_PHASE)

\* finalizeBatch without the test of the status
FinalizeBatchUnchecked(orderedTransactions, m) ==
  /\ created
  /\ finalOrderedTransactions' = orderedTransactions
  /\ metrics' = {m}
  /\ status' = COMPLETED
  /\ updatedAt' = now
  /\ addDomainEvent("BatchFinalizedEvent",
                    [totalTransactions |-> m.totalTransactions,
                     mevExtracted |-> m.extractedValue,
                     savingsGenerated |-> m.savingsGenerated])
  /\ lastCall' = Ok("finalizeBatch")
  /\ UNCHANGED <<now, created, times, commitments, revealedTransactions, createdAt>>

\* finalizeBatch that does not store the metrics it is given
FinalizeBatchDropsMetrics(orderedTransactions, m) ==
  /\ created
  /\ IF status # EXECUTION_PHASE
     THEN /\ lastCall' = InvalidBatchStatusError("finalizeBatch", EXECUTION_PHASE, status)
          /\ UNCHANGED <<now, batchVars>>
     ELSE /\ finalOrderedTransactions' = orderedTransactions
          /\ status' = COMPLETED
          /\ updatedAt' = now
          /\ addDomainEvent("BatchFinalizedEvent",
                            [totalTransactions |-> m.totalTransactions,
                             mevExtracted |-> m.extractedValue,
                             savingsGenerated |-> m.savingsGenerated])
          /\ lastCall' = Ok("finalizeBatch")
          /\ UNCHANGED <<now, created, times, commitments, revealedTransactions,
                         metrics, createdAt>>

FinalizeBatch(orderedTransactions, m) ==
  /\ created
  /\ IF status # EXECUTION_PHASE
     THEN /\ lastCall' = InvalidBatchStatusError("finalizeBatch", EXECUTION_PHASE, status)
          /\ UNCHANGED <<now, batchVars>>
     ELSE /\ finalOrderedTransactions' = orderedTransactions
          /\ metrics' = {m}
          /\ status' = COMPLETED
          /\ updatedAt' = now
          /\ addDomainEvent("BatchFinalizedEvent",
                            [totalTransactions |-> m.totalTransactions,
                             mevExtracted |-> m.extractedValue,
                             savingsGenerated |-> m.savingsGenerated])
          /\ lastCall' = Ok("finalizeBatch")
          /\ UNCHANGED <<now, created, times, commitments, revealedTransactions, createdAt>>

(***************************************************************************)
(* Batch.getRevealRate.  A number that need not be whole is the fraction   *)
(* <<numerator, denominator>> in lowest terms; the rounding of doubles is  *)
(* left out.                                                               *)
(***************************************************************************)
RECURSIVE GCD(_, _)
GCD(a, b) == IF b = 0 THEN a ELSE GCD(b, a % b)
Fraction(n, d) == <<n \div GCD(n, d), d \div GCD(n, d)>>

\* getRevealRate without the test for an empty batch: 0 / 0
RevealRateUnguarded(revealed, committed) ==
  IF committed = 0 THEN <<revealed, 0>>
  ELSE Fraction(Fraction(revealed, committed)[1] * 100, Fraction(revealed, committed)[2])

\* (revealed / committed) * 100, or 0 when nothing was committed
RevealRate(revealed, committed) ==
  IF committed = 0 THEN Fraction(0, 1)
  ELSE Fraction(Fraction(revealed, committed)[1] * 100, Fraction(revealed, committed)[2])

getCommitmentCount == Cardinality(DOMAIN commitments)
getRevealedTransactionCount == Cardinality(DOMAIN revealedTransactions)
getRevealRate == RevealRate(getRevealedTransactionCount, getCommitmentCount)

(***************************************************************************)
(* The clock                                                               *)
(***************************************************************************)
\* time is counted from the first Batch.create call
Tick ==
  /\ created
  /\ now < MaxTicks * TickMs
  /\ now' = now + TickMs
  /\ lastCall' = Ok("tick")
  /\ UNCHANGED batchVars

\* the operations of the aggregate, called directly
Next ==
  \/ \E params \in CreateParams : Create(params) /\ UNCHANGED <<executions, conversion, chain, held, retrying>>
  \/ \E props \in CommitmentProps : CommitmentCreateThrows(props) /\ UNCHANGED <<executions, conversion, chain, held, retrying>>
  \/ \E props \in CommitmentProps : AddCommitment(props) /\ UNCHANGED <<executions, conversion, chain, held, retrying>>
  \/ \E tx \in Txs, n \in Nonces, u \in Users :
       \E h \in RevealHashInputs(tx, n) :
         RevealTransaction(h, tx, u, n) /\ UNCHANGED <<executions, conversion, chain, held, retrying>>
  \/ TransitionToRevealPhase /\ UNCHANGED <<executions, conversion, chain, held, retrying>>
  \/ TransitionToExecutionPhase /\ UNCHANGED <<executions, conversion, chain, held, retrying>>
  \/ \E o \in OrderingInputs, m \in MetricsInputs :
       FinalizeBatch(o, m) /\ UNCHANGED <<executions, conversion, chain, held, retrying>>
  \/ Tick /\ UNCHANGED <<executions, conversion, chain, held, retrying>>

Spec == Init /\ [][Next]_vars

(***************************************************************************)
(* SubmitCommitmentUseCase.execute.  An execution runs from one await to   *)
(* the next without interruption; the repository and the bridge are ports  *)
(* (interfaces), whose calls resolve or reject.                            *)
(***************************************************************************)
RECURSIVE BigInt(_)
\* BigInt of a string of decimal digits
BigInt(s) ==
  IF Len(s) = 0 THEN 0
  ELSE 10 * BigInt(SubSeq(s, 1, Len(s) - 1)) + (IndexOf(Digits, s[Len(s)]) - 1)

\* SubmitCommitmentRequest
Request(userAddress, transactionData, nonce) ==
  [userAddress |-> userAddress, transactionData |-> transactionData, nonce |-> nonce]

GoodTx == TransactionData(Str(CHOOSE v \in ValueTexts : TRUE))
GoodNonce == CHOOSE n \in Nonces : TRUE
\* the requests the model makes: a valid one for each user, three that
\* validateRequest refuses (user address, gas limit, length of the nonce), and
\* one whose value is no number, on which BigInt throws
Requests ==
  {Request(u, GoodTx, GoodNonce) : u \in Users}
  \cup {Request(BadAddress, GoodTx, GoodNonce),
        Request(CHOOSE u \in Users : TRUE, [GoodTx EXCEPT !.value = Str(DataText)],
                GoodNonce),
        Request(CHOOSE u \in Users : TRUE, [GoodTx EXCEPT !.gasLimit = Str(ZeroText)],
                GoodNonce),
        Request(CHOOSE u \in Users : TRUE, GoodTx, Str(ShortNonceText))}

\* BigInt(s) throws a SyntaxError on a string that is no number; of the
\* strings the model passes, those are the ones with a character that is no digit
MsgCannotConvert == "Cannot convert ${value} to a BigInt"
IsNumeric(s) == \A i \in 1..Len(s) : s[i] \in Range(Digits)

\* validateRequest: the message of its Result.fail, MsgCannotConvert when a
\* BigInt call in it throws, "" when it returns Result.ok
validateRequest(request) ==
  IF ~ isValidEthereumAddress(Chars(request.userAddress))
    THEN "Invalid user address format"
  ELSE IF ~ isValidEthereumAddress(Chars(request.transactionData.to))
    THEN "Invalid transaction recipient address"
  ELSE IF Len(Chars(request.transactionData.value)) = 0
    THEN "Invalid transaction value"
  ELSE IF ~ IsNumeric(Chars(request.transactionData.value)) THEN MsgCannotConvert
  ELSE IF BigInt(Chars(request.transactionData.value)) < 0
    THEN "Invalid transaction value"
  ELSE IF Len(Chars(request.transactionData.gasLimit)) = 0
    THEN "Invalid gas limit"
  ELSE IF ~ IsNumeric(Chars(request.transactionData.gasLimit)) THEN MsgCannotConvert
  ELSE IF BigInt(Chars(request.transactionData.gasLimit)) <= 0
    THEN "Invalid gas limit"
  ELSE IF Len(Chars(request.transactionData.gasPrice)) = 0
    THEN "Invalid gas price"
  ELSE IF ~ IsNumeric(Chars(request.transactionData.gasPrice)) THEN MsgCannotConvert
  ELSE IF BigInt(Chars(request.transactionData.gasPrice)) <= 0
    THEN "Invalid gas price"
  ELSE IF request.transactionData.nonce < 0 THEN "Invalid transaction nonce"
  ELSE IF \/ Len(Chars(request.nonce)) = 0
          \/ Len(Chars(request.nonce)) < MinNonceLength
    THEN "Invalid commitment nonce - must be at least 10 characters"
  ELSE ""

MsgNoActiveBatch == "No active batch found for commitments"
MsgUserAlreadyCommitted == "User already has a commitment in this batch"
MsgBlockchainSubmissionFailed == "Blockchain submission failed: ${message}"
MsgFailedToSubmit == "Failed to submit commitment: ${message}"

\* IBatchRepository.getCurrentActiveBatch resolves to the batch when it is
\* the non-terminal batch whose [startTime, endTime) contains now, to null
\* otherwise; the repository hands out the aggregate it holds
HasActiveBatch ==
  /\ created
  /\ status \notin {COMPLETED, CANCELLED}
  /\ startTime <= now
  /\ now < endTime

\* the execution has returned result
Done(execution, step, result) ==
  [execution EXCEPT !.pc = "done", !.steps = @ \o step, !.result = result]

\* the execution has called a port and awaits it
Await(execution, step, port) ==
  [execution EXCEPT !.pc = port, !.steps = @ \o step \o <<port>>]

\* execute without its outer try/catch: the Error leaves the call
ExecuteRethrows(message) ==
  Outcome("SubmitCommitment", "throw", MsgFailedToSubmit, message, "", "")

\* the outer catch of execute: the Result of a caught Error holds the fixed
\* text in error and the Error's message in thrown
ExecuteCaught(message) == Fail("SubmitCommitment", MsgFailedToSubmit, message)

\* execute ignoring the outcome of validateRequest
ExecuteIgnoresValidation(e, request) ==
  /\ executions[e].pc = "idle"
  /\ executions' =
       [executions EXCEPT ![e] =
          Await([IdleExecution EXCEPT !.request = request], <<"validate">>,
                "getCurrentActiveBatch")]
  /\ UNCHANGED <<now, batchVars, lastCall, conversion, chain, held, retrying>>

\* execute, up to its first await: validateRequest, then the call of
\* batchRepository.getCurrentActiveBatch
Execute(e, request) ==
  LET started == [IdleExecution EXCEPT !.request = request]
      error   == validateRequest(request)
  IN
  /\ executions[e].pc = "idle"
  /\ executions' =
       [executions EXCEPT ![e] =
          IF error = MsgCannotConvert
          THEN Done(started, <<"validate">>, ExecuteCaught(error))
          ELSE IF error # ""
          THEN Done(started, <<"validate">>, Fail("SubmitCommitment", error, ""))
          ELSE Await(started, <<"validate">>, "getCurrentActiveBatch")]
  /\ UNCHANGED <<now, batchVars, lastCall, conversion, chain, held, retrying>>

\* execute, from the settling of the awaited call to the next await or to the
\* return
Resume(e, settled) ==
  LET x       == executions[e]
      request == x.request
      props   == [hash |-> Digest(request.transactionData, request.nonce),
                  userAddress |-> request.userAddress,
                  timestamp |-> now]
      failed(message, caught) == Fail("SubmitCommitment", message, caught)
  IN
  /\ x.pc \in {"getCurrentActiveBatch", "submitCommitment", "save"}
  /\ IF x.pc = "getCurrentActiveBatch" /\ settled = "resolved" /\ HasActiveBatch
        /\ request.userAddress \notin DOMAIN commitments
        /\ CommitmentCreateOk(props, now)
     THEN \* 6. batch.addCommitment, 7. the call of blockchainService.submitCommitment
          /\ AddCommitment(props)
          /\ UNCHANGED <<conversion, chain, held, retrying>>
          /\ executions' =
               [executions EXCEPT ![e] =
                  IF AddCommitmentError(props) # ""
                  THEN Done(x, <<"addCommitment">>, failed(AddCommitmentError(props), ""))
                  ELSE Await(x, <<"addCommitment">>, "submitCommitment")]
     ELSE /\ executions' =
               [executions EXCEPT ![e] =
                  IF x.pc = "getCurrentActiveBatch"
                  THEN IF settled = "rejected"
                         THEN Done(x, << >>, ExecuteCaught("repository"))
                       ELSE IF ~ HasActiveBatch
                         THEN Done(x, << >>, failed(MsgNoActiveBatch, ""))
                       ELSE IF request.userAddress \in DOMAIN commitments
                         THEN Done(x, << >>, failed(MsgUserAlreadyCommitted, ""))
                       ELSE \* 5. Commitment.create throws
                            Done(x, << >>, ExecuteCaught(CommitmentCreateError(props, now)))
                  ELSE IF x.pc = "submitCommitment"
                  THEN IF settled = "rejected"
                         THEN Done(x, << >>, failed(MsgBlockchainSubmissionFailed, "bridge"))
                       ELSE Await(x, << >>, "save")
                  ELSE IF settled = "rejected"
                         THEN Done(x, << >>, ExecuteCaught("repository"))
                       ELSE Done(x, << >>, Ok("SubmitCommitment"))]
          /\ UNCHANGED <<now, batchVars, lastCall, conversion, chain, held, retrying>>

\* the commitments other callers add to the batch while the use case runs
DirectCommitmentProps ==
  [hash : {CHOOSE h \in WellFormedHashes : TRUE}, userAddress : Users, timestamp : {0}]

\* a batch with the default windows, commitments made on it directly, the
\* clock, and the executions of the use case
NextUseCase ==
  \/ Create(Params(now, now + 3 * TickMs, {}, {})) /\ UNCHANGED <<executions, conversion, chain, held, retrying>>
  \/ \E props \in DirectCommitmentProps : AddCommitment(props) /\ UNCHANGED <<executions, conversion, chain, held, retrying>>
  \/ Tick /\ UNCHANGED <<executions, conversion, chain, held, retrying>>
  \/ \E e \in ExecutionIds, request \in Requests : Execute(e, request)
  \/ \E e \in ExecutionIds, settled \in {"resolved", "rejected"} : Resume(e, settled)

SpecUseCase == Init /\ [][NextUseCase]_vars

(***************************************************************************)
(* The aggregate and its event buffer: the operations of the aggregate, on *)
(* fewer inputs than in Next, and clearEvents, which the dispatcher of the *)
(* events may call between any two of them.                                *)
(***************************************************************************)
NextEvents ==
  \/ \E params \in {Params(now, now + 3 * TickMs, {}, {}), Params(now, now, {}, {})} :
       Create(params) /\ UNCHANGED <<executions, conversion, chain, held, retrying>>
  \/ \E props \in DirectCommitmentProps :
       AddCommitment(props) /\ UNCHANGED <<executions, conversion, chain, held, retrying>>
  \/ \E u \in Users, h \in WellFormedHashes :
       RevealTransaction(h, GoodTx, u, GoodNonce) /\ UNCHANGED <<executions, conversion, chain, held, retrying>>
  \/ TransitionToRevealPhase /\ UNCHANGED <<executions, conversion, chain, held, retrying>>
  \/ TransitionToExecutionPhase /\ UNCHANGED <<executions, conversion, chain, held, retrying>>
  \/ \E m \in MetricsInputs :
       FinalizeBatch(<< >>, m) /\ UNCHANGED <<executions, conversion, chain, held, retrying>>
  \/ Tick /\ UNCHANGED <<executions, conversion, chain, held, retrying>>
  \/ ClearEvents /\ UNCHANGED <<executions, conversion, chain, held, retrying>>

SpecEvents == Init /\ [][NextEvents]_vars

(***************************************************************************)
(* The numeric utilities, called on their own: an amount of ETH is turned  *)
(* into wei, and the wei back into ETH.                                    *)
(***************************************************************************)
EthToWei(eth) ==
  /\ conversion' = [op |-> "ethToWei", eth |-> eth, wei |-> ethToWei(eth), back |-> << >>]
  /\ UNCHANGED <<now, batchVars, lastCall, executions, chain, held, retrying>>

WeiToEth ==
  /\ conversion.op = "ethToWei"
  /\ conversion' = [conversion EXCEPT !.op = "weiToEth", !.back = weiToEth(conversion.wei)]
  /\ UNCHANGED <<now, batchVars, lastCall, executions, chain, held, retrying>>

NextUnits ==
  \/ \E eth \in EthAmounts : EthToWei(eth)
  \/ WeiToEth

SpecUnits == Init /\ [][NextUnits]_vars

(***************************************************************************)
(* The FairOrderingProtocol contract: its functions.  A call whose require *)
(* fails reverts: the storage is as before the call.                       *)
(***************************************************************************)
\* modifier validBatch
validBatch(batchId) == batchId > 0 /\ batchId < chain.nextBatchId

isCommitmentPhase(batchId) ==
  IF batchId = 0 \/ batchId >= chain.nextBatchId THEN FALSE
  ELSE /\ chain.batches[batchId].status = COMMITMENT_PHASE
       /\ chain.timestamp >= chain.batches[batchId].startTime
       /\ chain.timestamp < chain.batches[batchId].commitmentPhaseEnd

isRevealPhase(batchId) ==
  IF batchId = 0 \/ batchId >= chain.nextBatchId THEN FALSE
  ELSE /\ \/ chain.batches[batchId].status = REVEAL_PHASE
          \/ /\ chain.batches[batchId].status = COMMITMENT_PHASE
             /\ chain.timestamp >= chain.batches[batchId].commitmentPhaseEnd
       /\ chain.timestamp < chain.batches[batchId].revealPhaseEnd

MsgNotOwner == "Ownable: caller is not the owner"
MsgPaused == "Pausable: paused"
MsgNotPaused == "Pausable: not paused"
MsgInvalidBatchId == "Invalid batch ID"

\* a call of the contract: it reverts with the message of the first require
\* that fails, or returns and leaves the storage as newChain
Call(op, error, newChain) ==
  /\ IF error # ""
     THEN /\ lastCall' = Outcome(op, "revert", error, "", "", "")
          /\ chain' = chain
     ELSE /\ lastCall' = Ok(op)
          /\ chain' = newChain
  /\ UNCHANGED <<now, batchVars, executions, conversion, held, retrying>>

createBatchError(sender, start, end, commitmentDuration, revealDuration) ==
  IF sender # Owner THEN MsgNotOwner
  ELSE IF start < chain.timestamp THEN "Start time must be in future"
  ELSE IF end <= start THEN "End time must be after start time"
  ELSE IF commitmentDuration <= 0 THEN "Invalid commitment duration"
  ELSE IF revealDuration <= 0 THEN "Invalid reveal duration"
  ELSE IF start + commitmentDuration + revealDuration > end
    THEN "Phases exceed batch duration"
  ELSE ""

ChainCreateBatch(sender, start, end, commitmentDuration, revealDuration) ==
  /\ chain.nextBatchId <= MaxBatches
  /\ Call("createBatch",
          createBatchError(sender, start, end, commitmentDuration, revealDuration),
          [chain EXCEPT
             !.nextBatchId = @ + 1,
             !.batches =
               [b \in DOMAIN @ \cup {chain.nextBatchId} |->
                  IF b = chain.nextBatchId
                  THEN NewBatch(b, start, end, start + commitmentDuration,
                                start + commitmentDuration + revealDuration)
                  ELSE @[b]],
             !.currentBatchId =
               IF start <= chain.timestamp THEN chain.nextBatchId ELSE @])

submitCommitmentError(sender, value, batchId, commitment) ==
  IF chain.paused THEN MsgPaused
  ELSE IF ~ validBatch(batchId) THEN MsgInvalidBatchId
  ELSE IF ~ isCommitmentPhase(batchId) THEN "Not in commitment phase"
  ELSE IF value < chain.minCommitmentFee THEN "Insufficient commitment fee"
  ELSE IF commitment = ZeroBytes32 THEN "Invalid commitment"
  ELSE IF chain.hasUserCommitted[batchId, sender] THEN "User already committed"
  ELSE ""

ChainSubmitCommitment(sender, value, batchId, commitment) ==
  Call("submitCommitment",
       submitCommitmentError(sender, value, batchId, commitment),
       [chain EXCEPT
          !.balance = @ + value,
          !.userCommitments[batchId, sender] = commitment,
          !.hasUserCommitted[batchId, sender] = TRUE,
          !.batches[batchId].commitments = Append(@, commitment),
          !.batches[batchId].totalCommitments = @ + 1])

\* revealTransaction without the require on hasUserRevealed
revealTransactionErrorRepeatable(sender, batchId, transactionData, nonce) ==
  IF chain.paused THEN MsgPaused
  ELSE IF ~ validBatch(batchId) THEN MsgInvalidBatchId
  ELSE IF ~ isRevealPhase(batchId) THEN "Not in reveal phase"
  ELSE IF ~ chain.hasUserCommitted[batchId, sender] THEN "No commitment found"
  ELSE IF chain.userCommitments[batchId, sender]
            # keccak256(abiEncodePacked(transactionData, nonce))
    THEN "Invalid reveal"
  ELSE ""

revealTransactionError(sender, batchId, transactionData, nonce) ==
  IF chain.paused THEN MsgPaused
  ELSE IF ~ validBatch(batchId) THEN MsgInvalidBatchId
  ELSE IF ~ isRevealPhase(batchId) THEN "Not in reveal phase"
  ELSE IF ~ chain.hasUserCommitted[batchId, sender] THEN "No commitment found"
  ELSE IF chain.hasUserRevealed[batchId, sender] THEN "Already revealed"
  ELSE IF chain.userCommitments[batchId, sender]
            # keccak256(abiEncodePacked(transactionData, nonce))
    THEN "Invalid reveal"
  ELSE ""

ChainRevealTransaction(sender, batchId, transactionData, nonce) ==
  Call("revealTransaction",
       revealTransactionError(sender, batchId, transactionData, nonce),
       [chain EXCEPT
          !.revealedTransactions[batchId, sender] = transactionData,
          !.hasUserRevealed[batchId, sender] = TRUE,
          !.batches[batchId].revealedTransactions = Append(@, transactionData),
          !.batches[batchId].totalRevealed = @ + 1])

\* finalizeBatch without the require on the status
finalizeBatchErrorAnyStatus(sender, batchId) ==
  IF sender # Owner THEN MsgNotOwner
  ELSE IF ~ validBatch(batchId) THEN MsgInvalidBatchId
  ELSE IF chain.timestamp < chain.batches[batchId].revealPhaseEnd
    THEN "Reveal phase not ended"
  ELSE ""

finalizeBatchError(sender, batchId) ==
  IF sender # Owner THEN MsgNotOwner
  ELSE IF ~ validBatch(batchId) THEN MsgInvalidBatchId
  ELSE IF chain.timestamp < chain.batches[batchId].revealPhaseEnd
    THEN "Reveal phase not ended"
  ELSE IF chain.batches[batchId].status \notin {REVEAL_PHASE, COMMITMENT_PHASE}
    THEN "Invalid batch status"
  ELSE ""

ChainFinalizeBatch(sender, batchId) ==
  Call("finalizeBatch", finalizeBatchError(sender, batchId),
       [chain EXCEPT !.batches[batchId].status = EXECUTION_PHASE])

executeBatchError(sender, batchId, orderedIndices) ==
  IF sender # Owner THEN MsgNotOwner
  ELSE IF ~ validBatch(batchId) THEN MsgInvalidBatchId
  ELSE IF chain.batches[batchId].status # EXECUTION_PHASE THEN "Not in execution phase"
  ELSE IF Len(orderedIndices) # chain.batches[batchId].totalRevealed
    THEN "Invalid order length"
  ELSE ""

\* executeBatch, with _createNextBatch
ChainExecuteBatch(sender, batchId, orderedIndices) ==
  /\ chain.nextBatchId <= MaxBatches
  /\ Call("executeBatch", executeBatchError(sender, batchId, orderedIndices),
          [chain EXCEPT
             !.nextBatchId = @ + 1,
             !.currentBatchId = chain.nextBatchId,
             !.batches =
               [b \in DOMAIN @ \cup {chain.nextBatchId} |->
                  IF b = chain.nextBatchId
                  THEN NewBatch(b, chain.timestamp + GracePeriod,
                                chain.timestamp + GracePeriod + BatchLifetime,
                                chain.timestamp + GracePeriod + chain.defaultCommitmentDuration,
                                chain.timestamp + GracePeriod + chain.defaultCommitmentDuration
                                  + chain.defaultRevealDuration)
                  ELSE IF b = batchId THEN [@[b] EXCEPT !.status = COMPLETED]
                  ELSE @[b]]])

ChainUpdateBatchStatus(batchId) ==
  Call("updateBatchStatus",
       IF ~ validBatch(batchId) THEN MsgInvalidBatchId ELSE "",
       IF /\ validBatch(batchId)
          /\ chain.batches[batchId].status = COMMITMENT_PHASE
          /\ chain.timestamp >= chain.batches[batchId].commitmentPhaseEnd
       THEN [chain EXCEPT !.batches[batchId].status = REVEAL_PHASE]
       ELSE chain)

Pause(sender) ==
  Call("pause",
       IF sender # Owner THEN MsgNotOwner ELSE IF chain.paused THEN MsgPaused ELSE "",
       [chain EXCEPT !.paused = TRUE])

Unpause(sender) ==
  Call("unpause",
       IF sender # Owner THEN MsgNotOwner ELSE IF ~ chain.paused THEN MsgNotPaused ELSE "",
       [chain EXCEPT !.paused = FALSE])

SetMinCommitmentFee(sender, fee) ==
  Call("setMinCommitmentFee", IF sender # Owner THEN MsgNotOwner ELSE "",
       [chain EXCEPT !.minCommitmentFee = fee])

WithdrawFees(sender) ==
  Call("withdrawFees",
       IF sender # Owner THEN MsgNotOwner
       ELSE IF chain.balance <= 0 THEN "No fees to withdraw" ELSE "",
       [chain EXCEPT !.balance = 0])

\* the next block
Mine ==
  /\ chain.timestamp < MaxTicks * BlockStep
  /\ chain' = [chain EXCEPT !.timestamp = @ + BlockStep]
  /\ lastCall' = Ok("block")
  /\ UNCHANGED <<now, batchVars, executions, conversion, held, retrying>>

\* the ether sent with submitCommitment, and the fee the owner raises it to
ValueInputs == {0, InitialMinCommitmentFee}
FeeInputs == {InitialMinCommitmentFee + 1}
\* orderedIndices of executeBatch, by length
IndexInputs == {[i \in 1..k |-> i - 1] : k \in 0..Cardinality(Committers)}
\* the batch the owner schedules: it starts one block after the latest one ends
NextStart == chain.batches[chain.nextBatchId - 1].endTime + BlockStep

NextChain ==
  \/ ChainCreateBatch(Owner, NextStart, NextStart + BatchLifetime,
                      chain.defaultCommitmentDuration, chain.defaultRevealDuration)
  \/ ChainCreateBatch(Owner, NextStart, NextStart + BatchLifetime,
                      0, chain.defaultRevealDuration)
  \/ \E sender \in Committers, value \in ValueInputs, batchId \in BatchIds,
        commitment \in Bytes32Inputs :
       ChainSubmitCommitment(sender, value, batchId, commitment)
  \/ \E sender \in Committers, batchId \in BatchIds, t \in TxBlobs, n \in ChainNonces :
       ChainRevealTransaction(sender, batchId, t, n)
  \/ \E batchId \in BatchIds : ChainFinalizeBatch(Owner, batchId)
  \/ \E batchId \in BatchIds, indices \in IndexInputs :
       ChainExecuteBatch(Owner, batchId, indices)
  \/ \E batchId \in BatchIds : ChainUpdateBatchStatus(batchId)
  \/ \E sender \in Admins : Pause(sender)
  \/ Unpause(Owner)
  \/ \E fee \in FeeInputs : SetMinCommitmentFee(Owner, fee)
  \/ WithdrawFees(Owner)
  \/ Mine

SpecChain == Init /\ [][NextChain]_vars

(***************************************************************************)
(* The arrays a caller gets from the accessors of Batch and the array it   *)
(* passes to finalizeBatch.  An array is an object: a caller that holds    *)
(* the very array object of a field of the batch changes the field when it *)
(* changes the array.  The order of Array.from(map.values()) is the order  *)
(* of insertion, which the maps of the model do not keep: an order is      *)
(* chosen.                                                                 *)
(***************************************************************************)
ValuesOf(map) ==
  LET keys == DOMAIN map
      n == Cardinality(keys)
      order == CHOOSE f \in [1..n -> keys] : \A i, j \in 1..n : f[i] = f[j] => i = j
  IN [i \in 1..n |-> map[order[i]]]

\* get commitments(): Array.from makes a new array
commitmentsGetter == Array(ValuesOf(commitments), "commitments", "")
\* get revealedTransactions(): Array.from makes a new array
revealedTransactionsGetter == Array(ValuesOf(revealedTransactions), "revealedTransactions", "")
\* get finalOrderedTransactions() that returns the array of the field itself
finalOrderedTransactionsGetterLeaks ==
  Array(finalOrderedTransactions, "finalOrderedTransactions", "_finalOrderedTransactions")
\* get finalOrderedTransactions(): the spread makes a new array
finalOrderedTransactionsGetter == Array(finalOrderedTransactions, "finalOrderedTransactions", "")
\* the array passed to finalizeBatch: the batch stores a copy of it
\* ([...orderedTransactions]), so the caller's array stays its own
PassedOrdering(orderedTransactions) == Array(orderedTransactions, "orderedTransactions", "")

Get(op, array) ==
  /\ created
  /\ held' = array
  /\ lastCall' = Ok(op)
  /\ UNCHANGED <<now, batchVars>>

GetCommitments == Get("commitments", commitmentsGetter)
GetRevealedTransactions == Get("revealedTransactions", revealedTransactionsGetter)
GetFinalOrderedTransactions == Get("finalOrderedTransactions", finalOrderedTransactionsGetter)

\* finalizeBatch called with an array the caller keeps
FinalizeBatchKeepingArray(orderedTransactions, m) ==
  /\ FinalizeBatch(orderedTransactions, m)
  /\ held' = PassedOrdering(orderedTransactions)

\* the caller changes the array it holds; a field of the batch that is the same
\* array object changes with it
Modify(op, elements) ==
  /\ created
  /\ held.from # ""
  /\ held' = [held EXCEPT !.elements = elements]
  /\ lastCall' = Ok(op)
  /\ IF held.sharedWith = "_finalOrderedTransactions"
     THEN /\ finalOrderedTransactions' = elements
          /\ UNCHANGED <<now, created, times, status, commitments, revealedTransactions,
                         metrics, createdAt, updatedAt, domainEvents>>
     ELSE UNCHANGED <<now, batchVars>>

\* array.push(x)
Push(x) == Len(held.elements) <= MaxOrderLen /\ Modify("push", Append(held.elements, x))
\* array.length = 0
Truncate == held.elements # << >> /\ Modify("truncate", << >>)

NextAccessors ==
  \/ Create(Params(now, now + 3 * TickMs, {}, {})) /\ UNCHANGED <<executions, conversion, chain, held, retrying>>
  \/ \E props \in DirectCommitmentProps :
       AddCommitment(props) /\ UNCHANGED <<executions, conversion, chain, held, retrying>>
  \/ TransitionToRevealPhase /\ UNCHANGED <<executions, conversion, chain, held, retrying>>
  \/ TransitionToExecutionPhase /\ UNCHANGED <<executions, conversion, chain, held, retrying>>
  \/ \E o \in OrderingInputs, m \in MetricsInputs :
       FinalizeBatchKeepingArray(o, m) /\ UNCHANGED <<executions, conversion, chain, retrying>>
  \/ GetCommitments /\ UNCHANGED <<executions, conversion, chain, retrying>>
  \/ GetRevealedTransactions /\ UNCHANGED <<executions, conversion, chain, retrying>>
  \/ GetFinalOrderedTransactions /\ UNCHANGED <<executions, conversion, chain, retrying>>
  \/ \E x \in WellFormedHashes : Push(x) /\ UNCHANGED <<executions, conversion, chain, retrying>>
  \/ Truncate /\ UNCHANGED <<executions, conversion, chain, retrying>>

SpecAccessors == Init /\ [][NextAccessors]_vars

(***************************************************************************)
(* retry(fn, maxAttempts, delay).  pc is "fn" while an invocation of fn is *)
(* awaited, "sleep" while sleep(delay * attempt) is awaited, "returned" or *)
(* "thrown" when the call has ended.  fn settles as its caller's function  *)
(* does: it resolves with a value or rejects with an error.                *)
(***************************************************************************)
\* delay = 1000 by default
DefaultRetryDelay == 1000
RetryDelays == {0, DefaultRetryDelay}
FnValues == {"v1", "v2"}
FnErrors == {"e1", "e2", "e3"}

\* for (let attempt = 1; attempt <= maxAttempts; ...): the test of the loop
InLoop(r) == r.attempt <= r.maxAttempts

\* the loop entered at the value of attempt in r: fn is invoked, or the loop is
\* over and the statement after it throws lastError
Iterate(r) ==
  IF InLoop(r)
  THEN [r EXCEPT !.pc = "fn"]
  ELSE [r EXCEPT !.pc = "thrown", !.settled = <<"throw", r.lastError>>]

Retry(maxAttempts, delay) ==
  /\ retrying.pc = "idle"
  /\ retrying' = Iterate([IdleRetry EXCEPT !.maxAttempts = maxAttempts,
                                           !.delay = delay, !.attempt = 1])
  /\ UNCHANGED <<now, batchVars, lastCall, executions, conversion, chain, held>>

\* return await fn(): fn resolves
FnResolves(value) ==
  /\ retrying.pc = "fn"
  /\ retrying' = [retrying EXCEPT !.pc = "returned",
                                  !.invocations = Append(@, <<"resolve", value>>),
                                  !.settled = <<"return", value>>]
  /\ UNCHANGED <<now, batchVars, lastCall, executions, conversion, chain, held>>

\* if (attempt === maxAttempts) that is never true
IsLastAttemptNever(r) == FALSE
\* if (attempt === maxAttempts)
IsLastAttempt(r) == r.attempt = r.maxAttempts

\* fn rejects (or throws): the catch block
FnRejects(error) ==
  /\ retrying.pc = "fn"
  /\ retrying' =
       IF IsLastAttempt(retrying)
       THEN [retrying EXCEPT !.pc = "thrown",
                             !.invocations = Append(@, <<"reject", error>>),
                             !.lastError = error,
                             !.settled = <<"throw", error>>]
       ELSE [retrying EXCEPT !.pc = "sleep",
                             !.invocations = Append(@, <<"reject", error>>),
                             !.lastError = error,
                             !.sleeps = Append(@, retrying.delay * retrying.attempt)]
  /\ UNCHANGED <<now, batchVars, lastCall, executions, conversion, chain, held>>

\* the timer of sleep fires: attempt++ and the next iteration
SleepEnds ==
  /\ retrying.pc = "sleep"
  /\ retrying' = Iterate([retrying EXCEPT !.attempt = @ + 1])
  /\ UNCHANGED <<now, batchVars, lastCall, executions, conversion, chain, held>>

FnSettles ==
  \/ \E value \in FnValues : FnResolves(value)
  \/ \E error \in FnErrors : FnRejects(error)

NextRetry ==
  \/ \E maxAttempts \in 0..MaxAttempts, delay \in RetryDelays : Retry(maxAttempts, delay)
  \/ FnSettles
  \/ SleepEnds

\* the promise of fn settles and the timer of sleep fires
SpecRetry ==
  Init /\ [][NextRetry]_vars /\ WF_vars(FnSettles) /\ WF_vars(SleepEnds)

(***************************************************************************)
(* Properties                                                              *)
(***************************************************************************)
\* C1: the recorded status changes only by COMMITMENT_PHASE -> REVEAL_PHASE in
\* transitionToRevealPhase, REVEAL_PHASE -> EXECUTION_PHASE in
\* transitionToExecutionPhase and EXECUTION_PHASE -> COMPLETED in finalizeBatch;
\* no other step (addCommitment, revealTransaction, a failing call) changes it.
C1_StatusOnlyAdvances ==
  [][status' # status =>
       \/ /\ status = COMMITMENT_PHASE /\ status' = REVEAL_PHASE
          /\ lastCall' = Ok("transitionToRevealPhase")
       \/ /\ status = REVEAL_PHASE /\ status' = EXECUTION_PHASE
          /\ lastCall' = Ok("transitionToExecutionPhase")
       \/ /\ status = EXECUTION_PHASE /\ status' = COMPLETED
          /\ lastCall' = Ok("finalizeBatch")]_vars

\* a batch with a commitment has been taken through every phase
C1_Witness ==
  /\ status = COMPLETED
  /\ lastCall = Ok("finalizeBatch")
  /\ commitments # EmptyMap

\* C2: addCommitment succeeds only when the status is COMMITMENT_PHASE and
\* now < commitmentPhaseEnd; a call at now = commitmentPhaseEnd or later is
\* rejected and leaves the batch as it was.
C2_CommitmentOnlyBeforeDeadline ==
  [][lastCall'.op = "addCommitment" =>
       /\ lastCall'.kind = "ok" => status = COMMITMENT_PHASE /\ now < commitmentPhaseEnd
       /\ now >= commitmentPhaseEnd => lastCall'.kind = "fail" /\ UNCHANGED batchVars]_vars

\* C3: in the commitment phase, addCommitment for a user without a commitment
\* succeeds and stores it; addCommitment for a user who has one fails with the
\* failure of CommitmentAlreadyExistsError (COMMITMENT_ALREADY_EXISTS), and
\* the commitments (their number, and the user's first commitment) stay.
C3_DuplicateCommitmentRejected ==
  [][\A c \in CommitmentProps :
       (lastCall'.op = "addCommitment" /\ isInCommitmentPhase /\ AddCommitment(c)) =>
         IF c.userAddress \in DOMAIN commitments
         THEN /\ lastCall' = Fail("addCommitment", MsgCommitmentAlreadyExists,
                                  "COMMITMENT_ALREADY_EXISTS")
              /\ commitments' = commitments
         ELSE /\ lastCall' = Ok("addCommitment")
              /\ DOMAIN commitments' = DOMAIN commitments \cup {c.userAddress}
              /\ commitments'[c.userAddress] = c]_vars

\* a user's second addCommitment has been rejected; the batch holds the one
\* commitment
C3_Witness ==
  /\ lastCall.op = "addCommitment"
  /\ lastCall.thrown = "COMMITMENT_ALREADY_EXISTS"
  /\ Cardinality(DOMAIN commitments) = 1
  /\ isInCommitmentPhase

\* C5: for every transaction and nonce, Commitment.create accepts the digest
\* generateCommitmentHash gives for them (with a valid address and a timestamp
\* that is not in the future), so that the commitment can be added and later
\* revealed: no such call of Commitment.create throws.
C5_DigestIsACommitmentHash ==
  [][\A props \in CommitmentProps :
       (/\ lastCall'.op = "Commitment.create"
        /\ props.hash \in Digests
        /\ isValidEthereumAddress(Chars(props.userAddress))
        /\ props.timestamp <= now)
       => ~ CommitmentCreateThrows(props)]_vars

\* C6: revealTransaction fails with REVEAL_PHASE_NOT_ACTIVE when the status is
\* not REVEAL_PHASE or the clock is past revealPhaseEnd; otherwise with the
\* no-matching-commitment failure when the user has no commitment or its hash
\* differs from commitmentHash; otherwise with TRANSACTION_REVEAL_MISMATCH when
\* the digest of (transactionData, nonce) differs from commitmentHash; the
\* three failures carry three different messages.  (Every call either returns
\* what this order gives for its arguments, or is not the call of this step.)
C6_RevealErrorOrder ==
  [][lastCall'.op = "revealTransaction" =>
       \A tx \in Txs, n \in Nonces, u \in Users :
         \A h \in RevealHashInputs(tx, n) :
           \/ lastCall' =
                IF status # REVEAL_PHASE \/ now > revealPhaseEnd
                  THEN Fail("revealTransaction", MsgRevealPhaseNotActive,
                            "REVEAL_PHASE_NOT_ACTIVE")
                ELSE IF u \notin DOMAIN commitments \/ commitments[u].hash # h
                  THEN Fail("revealTransaction", MsgNoMatchingCommitment, "")
                ELSE IF Digest(tx, n) # h
                  THEN Fail("revealTransaction", MsgTransactionRevealMismatch,
                            "TRANSACTION_REVEAL_MISMATCH")
                ELSE Ok("revealTransaction")
           \/ ~ RevealTransaction(h, tx, u, n)]_vars

\* a reveal in the reveal phase, under the hash the user committed, has passed
\* the first two checks and failed the third
C6_Witness ==
  /\ lastCall = Fail("revealTransaction", MsgTransactionRevealMismatch,
                     "TRANSACTION_REVEAL_MISMATCH")
  /\ isInRevealPhase
  /\ commitments # EmptyMap
  /\ Cardinality({MsgRevealPhaseNotActive, MsgNoMatchingCommitment,
                  MsgTransactionRevealMismatch}) = 3

\* C7: a call of addCommitment or revealTransaction that returns a failure
\* leaves the batch as it was: commitments, reveals, status, final ordering,
\* updatedAt and the event buffer (and every other field) are unchanged.
C7_FailureChangesNothing ==
  [][(lastCall'.op \in {"addCommitment", "revealTransaction"} /\ lastCall'.kind # "ok")
       => UNCHANGED batchVars]_vars

\* a reveal has failed on a batch that holds a commitment and events, at a
\* time later than the batch's last change
C7_Witness ==
  /\ lastCall.op = "revealTransaction"
  /\ lastCall.kind = "fail"
  /\ commitments # EmptyMap
  /\ Len(domainEvents) >= 2
  /\ updatedAt < now

\* C10: a batch Batch.create has returned satisfies
\* startTime <= commitmentPhaseEnd <= revealPhaseEnd <= endTime, and the four
\* times never change afterwards.
C10_PhaseTimesOrdered ==
  [][/\ created' => /\ startTime' <= commitmentPhaseEnd'
                    /\ commitmentPhaseEnd' <= revealPhaseEnd'
                    /\ revealPhaseEnd' <= endTime'
     /\ created => times' = times]_vars

\* C11: Batch.create returns a failure, creating no batch and emitting no
\* event, exactly when endTime <= startTime, or startTime < now, or
\* startTime + commitmentDuration + revealDuration > endTime (durations
\* default to 30 and 15 minutes); otherwise it returns a batch in
\* COMMITMENT_PHASE with no commitments, no reveals, an empty final ordering
\* and an event buffer holding exactly one BatchCreatedEvent.
C11_CreateFailsExactlyWhen ==
  [][lastCall'.op = "create" =>
       \A params \in CreateParams :
         Create(params) =>
           LET commitmentDuration ==
                 OrElse(params.commitmentDurationMinutes, DefaultCommitmentMinutes)
               revealDuration ==
                 OrElse(params.revealDurationMinutes, DefaultRevealMinutes)
           IN  IF \/ params.endTime <= params.startTime
                  \/ params.startTime < now
                  \/ params.startTime + (commitmentDuration + revealDuration) * MsPerMinute
                       > params.endTime
               THEN /\ lastCall'.kind = "fail"
                    /\ ~ created'
                    /\ domainEvents' = << >>
                    /\ UNCHANGED batchVars
               ELSE /\ lastCall' = Ok("create")
                    /\ created'
                    /\ status' = COMMITMENT_PHASE
                    /\ commitments' = EmptyMap
                    /\ revealedTransactions' = EmptyMap
                    /\ finalOrderedTransactions' = << >>
                    /\ Len(domainEvents') = 1
                    /\ domainEvents'[1].eventName = "BatchCreatedEvent"]_vars

\* Batch.create has returned a batch whose start lies in the future
C11_Witness ==
  /\ lastCall = Ok("create")
  /\ created
  /\ startTime > now
  /\ Len(domainEvents) = 1

\* C12: in a COMPLETED batch the final ordering is a permutation of the keys
\* of the revealed transactions: each element is a revealed commitment hash,
\* no element occurs twice, and there are as many as reveals (finalizeBatch
\* having rejected every other ordering).
C12_FinalOrderingIsPermutation ==
  status = COMPLETED =>
    /\ Range(finalOrderedTransactions) = DOMAIN revealedTransactions
    /\ Len(finalOrderedTransactions) = Cardinality(DOMAIN revealedTransactions)

\* C13: finalizeBatch(ordering, metrics) in EXECUTION_PHASE sets the final
\* ordering to ordering, metrics to metrics and status to COMPLETED, appends
\* exactly one BatchFinalizedEvent carrying totalTransactions, extractedValue
\* and savingsGenerated of metrics, and leaves commitments and reveals alone.
C13_FinalizeEffect ==
  [][(lastCall'.op = "finalizeBatch" /\ status = EXECUTION_PHASE) =>
       \A o \in OrderingInputs, m \in MetricsInputs :
         FinalizeBatch(o, m) =>
           /\ lastCall' = Ok("finalizeBatch")
           /\ finalOrderedTransactions' = o
           /\ metrics' = {m}
           /\ status' = COMPLETED
           /\ domainEvents' =
                Append(domainEvents,
                       [eventName |-> "BatchFinalizedEvent",
                        eventData |-> [totalTransactions |-> m.totalTransactions,
                                       mevExtracted |-> m.extractedValue,
                                       savingsGenerated |-> m.savingsGenerated]])
           /\ commitments' = commitments
           /\ revealedTransactions' = revealedTransactions]_vars

\* a batch holding commitments has been finalized with a non-empty ordering
C13_Witness ==
  /\ lastCall = Ok("finalizeBatch")
  /\ status = COMPLETED
  /\ finalOrderedTransactions # << >>
  /\ metrics # {}
  /\ Cardinality(DOMAIN commitments) = 2

\* C14: transitionToRevealPhase succeeds exactly when the status is
\* COMMITMENT_PHASE and transitionToExecutionPhase exactly when it is
\* REVEAL_PHASE; a successful call appends exactly one
\* BatchStatusChangedEvent(from, to); a call in another status fails with
\* INVALID_BATCH_STATUS naming the expected and the actual status and leaves
\* status, updatedAt and the event buffer unchanged.
C14_TransitionGuards ==
  [][lastCall'.op \in {"transitionToRevealPhase", "transitionToExecutionPhase"} =>
       LET from == IF lastCall'.op = "transitionToRevealPhase"
                   THEN COMMITMENT_PHASE ELSE REVEAL_PHASE
           to   == IF lastCall'.op = "transitionToRevealPhase"
                   THEN REVEAL_PHASE ELSE EXECUTION_PHASE
       IN  IF status = from
           THEN /\ lastCall'.kind = "ok"
                /\ status' = to
                /\ domainEvents' =
                     Append(domainEvents,
                            [eventName |-> "BatchStatusChangedEvent",
                             eventData |-> [fromStatus |-> from, toStatus |-> to]])
           ELSE /\ lastCall'.kind # "ok"
                /\ lastCall'.thrown = "INVALID_BATCH_STATUS"
                /\ lastCall'.expected = from
                /\ lastCall'.actual = status
                /\ status' = status
                /\ updatedAt' = updatedAt
                /\ domainEvents' = domainEvents]_vars

\* transitionToExecutionPhase has been refused on a batch in COMMITMENT_PHASE
C14_Witness ==
  /\ lastCall.op = "transitionToExecutionPhase"
  /\ lastCall.thrown = "INVALID_BATCH_STATUS"
  /\ lastCall.expected = REVEAL_PHASE
  /\ lastCall.actual = COMMITMENT_PHASE
  /\ status = COMMITMENT_PHASE

\* C15: create, addCommitment, revealTransaction, transitionToRevealPhase,
\* transitionToExecutionPhase and finalizeBatch return a Result in every state
\* and for every argument: none lets an exception reach its caller.
C15_EntryPointsReturnResult ==
  lastCall.op \in {"create", "addCommitment", "revealTransaction",
                   "transitionToRevealPhase", "transitionToExecutionPhase",
                   "finalizeBatch"}
    => lastCall.kind \in {"ok", "fail"}

\* the names of the events in the buffer, in order
EventNames == [i \in 1..Len(domainEvents) |-> domainEvents[i].eventName]

\* C16: the happy path.  On a batch created with a 30-minute commitment and a
\* 15-minute reveal window, a user's commitment of the hasher's digest of
\* (tx, nonce) during the commitment phase succeeds and the buffer then holds
\* BatchCreatedEvent, CommitmentAddedEvent; after the phase is advanced, the
\* reveal of the same tx and nonce succeeds; and a batch finalized after these
\* steps holds the six events in the order of the operations.
C16_HappyPath ==
  [][/\ lastCall'.op \in {"Commitment.create", "addCommitment"} =>
          \A props \in CommitmentProps :
            (/\ commitmentPhaseEnd = addMinutes(startTime, DefaultCommitmentMinutes)
             /\ revealPhaseEnd = addMinutes(commitmentPhaseEnd, DefaultRevealMinutes)
             /\ isInCommitmentPhase
             /\ commitments = EmptyMap
             /\ props.hash \in Digests
             /\ props.timestamp <= now
             /\ (CommitmentCreateThrows(props) \/ AddCommitment(props)))
            => /\ lastCall' = Ok("addCommitment")
               /\ EventNames' = <<"BatchCreatedEvent", "CommitmentAddedEvent">>
     /\ lastCall'.op = "revealTransaction" =>
          \A tx \in Txs, n \in Nonces, u \in Users :
            (/\ isInRevealPhase
             /\ u \in DOMAIN commitments
             /\ commitments[u].hash = Digest(tx, n)
             /\ RevealTransaction(Digest(tx, n), tx, u, n))
            => lastCall' = Ok("revealTransaction")
     /\ (lastCall' = Ok("finalizeBatch") /\ revealedTransactions # EmptyMap
         /\ Cardinality(DOMAIN commitments) = 1) =>
          EventNames' = <<"BatchCreatedEvent", "CommitmentAddedEvent",
                          "BatchStatusChangedEvent", "TransactionRevealedEvent",
                          "BatchStatusChangedEvent", "BatchFinalizedEvent">>]_vars

\* the steps of SubmitCommitment in the order of the claim
StepOrder ==
  <<"validate", "getCurrentActiveBatch", "addCommitment", "submitCommitment", "save">>
IsPrefix(s, t) == Len(s) <= Len(t) /\ s = SubSeq(t, 1, Len(s))

\* C20: every execution of SubmitCommitment performs validate, load of the
\* batch, addCommitment, bridge.submitCommitment, repository.save in this
\* order and stops at the first step that fails: a request that fails
\* validation ends there, with neither port called; a load that finds no
\* active batch ends in the no-active-batch failure, with neither bridge nor
\* save called; the bridge is called only in the step in which addCommitment
\* succeeded, save only when the bridge call has returned; an execution that
\* has returned does nothing more.
C20_StepsInOrder ==
  [][\A e \in ExecutionIds :
       executions'[e] # executions[e] =>
         LET x == executions[e]
             y == executions'[e]
         IN  /\ x.pc # "done"
             /\ IsPrefix(y.steps, StepOrder)
             /\ IsPrefix(x.steps, y.steps)
             /\ (x.pc = "idle" /\ validateRequest(y.request) # "") =>
                  /\ y.pc = "done"
                  /\ y.result.kind = "fail"
                  /\ y.steps = <<"validate">>
             /\ (x.pc = "getCurrentActiveBatch" /\ ~ HasActiveBatch
                 /\ y.result.thrown # "repository") =>
                  /\ y.pc = "done"
                  /\ y.result = Fail("SubmitCommitment", MsgNoActiveBatch, "")
                  /\ y.steps = <<"validate", "getCurrentActiveBatch">>
             /\ (y.pc = "submitCommitment") => lastCall' = Ok("addCommitment")
             /\ (y.pc = "save") => x.pc = "submitCommitment"
             /\ (y.pc = "done" /\ y.result.kind = "ok") => y.steps = StepOrder]_vars

\* one execution has failed validation without calling a port, another has
\* found no active batch and returned without calling bridge or save
C20_Witness ==
  \E e, f \in ExecutionIds :
    /\ executions[e].pc = "done"
    /\ validateRequest(executions[e].request) # ""
    /\ executions[e].steps = <<"validate">>
    /\ executions[f].pc = "done"
    /\ executions[f].result.error = MsgNoActiveBatch
    /\ executions[f].steps = <<"validate", "getCurrentActiveBatch">>

\* C21: a request that passes validation, from a user without a commitment,
\* while the active batch is in its commitment phase and the repository and
\* the bridge work, is carried through to a success Result: the execution
\* whose load has resolved in such a state does not return there.
C21_ValidRequestSucceeds ==
  [][\A e \in ExecutionIds :
       (/\ executions[e].pc = "getCurrentActiveBatch"
        /\ executions'[e].pc = "done"
        /\ HasActiveBatch
        /\ isInCommitmentPhase
        /\ executions[e].request.userAddress \notin DOMAIN commitments)
       => executions'[e].result.thrown = "repository"]_vars

C24_SameUserOneCommitment ==
  \A e, f \in ExecutionIds :
    (/\ e # f
     /\ executions[e].pc = "done"
     /\ executions[f].pc = "done"
     /\ executions[e].request = executions[f].request
     /\ validateRequest(executions[e].request) = ""
     /\ \A g \in {e, f} :
          executions[g].result \notin
            {Fail("SubmitCommitment", MsgNoActiveBatch, ""), ExecuteCaught("repository")}
     /\ isInCommitmentPhase)
    => /\ Cardinality({g \in {e, f} : executions[g].result.kind = "ok"}) <= 1
       /\ Cardinality({g \in {e, f} : "submitCommitment" \in Range(executions[g].steps)}) <= 1
       /\ executions[e].request.userAddress \in DOMAIN commitments

\* the reveal window of the batch is over: by the recorded status or by the clock
RevealClosed == status \in {EXECUTION_PHASE, COMPLETED} \/ now > revealPhaseEnd

\* C25: once the status of a batch is EXECUTION_PHASE or COMPLETED, or the
\* clock is past revealPhaseEnd, this stays so, every revealTransaction call
\* fails as not in the reveal phase, and the revealed transactions never change.
C25_LateRevealRefused ==
  [][(created /\ RevealClosed) =>
       /\ RevealClosed'
       /\ revealedTransactions' = revealedTransactions
       /\ lastCall'.op = "revealTransaction" =>
            lastCall' = Fail("revealTransaction", MsgRevealPhaseNotActive,
                             "REVEAL_PHASE_NOT_ACTIVE")]_vars

\* a user has committed, the clock has passed revealPhaseEnd while the status
\* is still REVEAL_PHASE, and a reveal has just been refused
C25_Witness ==
  /\ status = REVEAL_PHASE
  /\ now > revealPhaseEnd
  /\ DOMAIN commitments # {}
  /\ lastCall = Fail("revealTransaction", MsgRevealPhaseNotActive, "REVEAL_PHASE_NOT_ACTIVE")

\* C27: getRevealRate is 0 for a batch without commitments and otherwise
\* 100 * revealed / committed (50 for one reveal of two commitments); in every
\* state of a batch it lies between 0 and 100.
C27_RevealRate ==
  created =>
    /\ getCommitmentCount = 0 => getRevealRate = <<0, 1>>
    /\ getCommitmentCount > 0 =>
         getRevealRate[1] * getCommitmentCount
           = 100 * getRevealedTransactionCount * getRevealRate[2]
    /\ 0 <= getRevealRate[1]
    /\ getRevealRate[1] <= 100 * getRevealRate[2]
    /\ RevealRate(1, 2) = <<50, 1>>

\* a batch with two commitments, none revealed: the rate is 0
C27_Witness ==
  /\ created
  /\ getCommitmentCount = 2
  /\ getRevealRate = <<0, 1>>

\* C28: converting an amount of ETH to wei and the wei back to ETH gives the
\* amount again, for whole amounts and for amounts with a fraction.
C28_WeiRoundTrip ==
  conversion.op = "weiToEth" => conversion.back = conversion.eth

\* C29: on chain, a revealTransaction call returns only if the block time is
\* before the batch's revealPhaseEnd, the sender has committed in the batch
\* and has not revealed in it, and keccak256 of the packed transaction data
\* and nonce is the sender's stored commitment; a submitCommitment call
\* returns only if the value sent is at least minCommitmentFee and the sender
\* has not committed in the batch; a call that reverts leaves the storage as
\* it was.
C29_OnChainGuards ==
  [][/\ \A sender \in Committers, batchId \in BatchIds, t \in TxBlobs, n \in ChainNonces :
          \/ lastCall' # Ok("revealTransaction")
          \/ ~ ChainRevealTransaction(sender, batchId, t, n)
          \/ /\ chain.timestamp < chain.batches[batchId].revealPhaseEnd
             /\ chain.hasUserCommitted[batchId, sender]
             /\ ~ chain.hasUserRevealed[batchId, sender]
             /\ keccak256(abiEncodePacked(t, n)) = chain.userCommitments[batchId, sender]
     /\ \A sender \in Committers, value \in ValueInputs, batchId \in BatchIds,
           commitment \in Bytes32Inputs :
          \/ lastCall' # Ok("submitCommitment")
          \/ ~ ChainSubmitCommitment(sender, value, batchId, commitment)
          \/ /\ value >= chain.minCommitmentFee
             /\ ~ chain.hasUserCommitted[batchId, sender]
     /\ lastCall'.kind = "revert" => chain' = chain]_vars

\* a sender who has committed and revealed in batch 1 has called
\* revealTransaction again, and the call has reverted
C29_Witness ==
  /\ lastCall = Outcome("revealTransaction", "revert", "Already revealed", "", "", "")
  /\ \E sender \in Committers :
       /\ chain.hasUserCommitted[1, sender]
       /\ chain.hasUserRevealed[1, sender]
       /\ chain.batches[1].totalRevealed >= 1

\* the event a successful operation of the aggregate adds
EventOf(op) ==
  CASE op = "create" -> "BatchCreatedEvent"
    [] op = "addCommitment" -> "CommitmentAddedEvent"
    [] op = "revealTransaction" -> "TransactionRevealedEvent"
    [] op \in {"transitionToRevealPhase", "transitionToExecutionPhase"}
         -> "BatchStatusChangedEvent"
    [] op = "finalizeBatch" -> "BatchFinalizedEvent"
    [] OTHER -> ""

\* C30: a successful create, addCommitment, revealTransaction, transition or
\* finalizeBatch appends exactly one event, the one of the operation, at the
\* end of the buffer and leaves the events before it as they were; clearEvents
\* empties the buffer and changes nothing else of the batch; no other step
\* changes the buffer.
C30_EventsAppendOnly ==
  [][IF lastCall' = Ok("clearEvents")
     THEN /\ domainEvents' = << >>
          /\ UNCHANGED <<now, created, times, status, commitments, revealedTransactions,
                         finalOrderedTransactions, metrics, createdAt, updatedAt>>
     ELSE IF lastCall'.kind = "ok" /\ EventOf(lastCall'.op) # ""
     THEN /\ Len(domainEvents') = Len(domainEvents) + 1
          /\ SubSeq(domainEvents', 1, Len(domainEvents)) = domainEvents
          /\ domainEvents'[Len(domainEvents')].eventName = EventOf(lastCall'.op)
     ELSE domainEvents' = domainEvents]_vars

\* the buffer was cleared after the batch was created and a first commitment
\* added; a second commitment has then put its event into the emptied buffer
C30_Witness ==
  /\ lastCall = Ok("addCommitment")
  /\ getCommitmentCount = 2
  /\ EventNames = <<"CommitmentAddedEvent">>

\* C31: the accessors return snapshots: when a caller changes an array it got
\* from commitments, revealedTransactions or finalOrderedTransactions, or the
\* array it passed to finalizeBatch, the commitments, the reveals and the final
\* ordering of the batch stay as they were.
C31_AccessorsReturnSnapshots ==
  [][lastCall'.op \in {"push", "truncate"} =>
       UNCHANGED <<commitments, revealedTransactions, finalOrderedTransactions>>]_vars

\* the caller has pushed onto the array it got from finalOrderedTransactions of
\* a completed batch with a final ordering of one transaction
C31_Witness ==
  /\ status = COMPLETED
  /\ lastCall = Ok("push")
  /\ held.from = "finalOrderedTransactions"
  /\ Len(finalOrderedTransactions) = 1
  /\ Len(held.elements) = 2

\* C32: the recorded status never runs ahead of the clock: the status is
\* REVEAL_PHASE only when now >= commitmentPhaseEnd, and EXECUTION_PHASE or
\* COMPLETED only when now >= revealPhaseEnd.
C32_StatusNotAheadOfClock ==
  created =>
    /\ status = REVEAL_PHASE => now >= commitmentPhaseEnd
    /\ status \in {EXECUTION_PHASE, COMPLETED} => now >= revealPhaseEnd

\* String.prototype.toLowerCase on the characters of a string
toLowerCase(text) ==
  [i \in 1..Len(text) |->
     IF text[i] \in Range(Upper) THEN Lower[IndexOf(Upper, text[i])] ELSE text[i]]

\* Commitment.isFromUser
isFromUser(commitment, userAddress) ==
  toLowerCase(Chars(commitment.userAddress)) = toLowerCase(Chars(userAddress))

\* C34: the uniqueness of commitments per user does not depend on the letter
\* case of the address: a batch never holds commitments under two addresses
\* that differ only in the case of their hex digits.
C34_OneCommitmentPerUserAnyCase ==
  \A u, v \in DOMAIN commitments : isFromUser(commitments[u], v) => u = v

\* C35: addCommitment is accepted only inside the commitment window
\* [startTime, commitmentPhaseEnd): whenever a commitment is stored, the clock
\* is at or past startTime and before commitmentPhaseEnd.
C35_CommitOnlyInsideWindow ==
  [][created /\ commitments' # commitments =>
       startTime <= now /\ now < commitmentPhaseEnd]_vars

\* the operations of the aggregate that change a batch
BatchOperations ==
  {"addCommitment", "revealTransaction", "transitionToRevealPhase",
   "transitionToExecutionPhase", "finalizeBatch"}

C38_CommitmentsOnlyGrow ==
  [][created =>
       /\ \A u \in DOMAIN commitments :
            u \in DOMAIN commitments' /\ commitments'[u] = commitments[u]
       /\ status # COMMITMENT_PHASE => commitments' = commitments]_vars

\* with one commitment stored, a second user's addCommitment has been refused
\* in REVEAL_PHASE before the clock reached commitmentPhaseEnd
C38_Witness ==
  /\ status = REVEAL_PHASE
  /\ now < commitmentPhaseEnd
  /\ Cardinality(DOMAIN commitments) = 1
  /\ lastCall.op = "addCommitment"
  /\ lastCall.kind = "fail"

\* enum BatchStatus, as the number of its member
StatusNumber(s) ==
  CASE s = COMMITMENT_PHASE -> 0
    [] s = REVEAL_PHASE -> 1
    [] s = EXECUTION_PHASE -> 2
    [] s = COMPLETED -> 3

\* C39: in the contract, for every batch: the number of commitments is the
\* number of addresses that have committed and the number of reveals is the
\* number of addresses that have revealed (each address commits and reveals at
\* most once), only an address that has committed has revealed, and
\* totalRevealed <= totalCommitments; in every step the status does not move
\* backward, EXECUTION_PHASE is entered only with the block time at or past
\* revealPhaseEnd, and COMPLETED is entered only by an executeBatch called in
\* EXECUTION_PHASE with as many indices as totalRevealed.
C39_OnChainInvariants ==
  /\ [](\A b \in DOMAIN chain.batches :
          LET batch == chain.batches[b]
              committed == {a \in Committers : chain.hasUserCommitted[b, a]}
              revealed == {a \in Committers : chain.hasUserRevealed[b, a]}
          IN /\ batch.totalCommitments = Cardinality(committed)
             /\ Len(batch.commitments) = batch.totalCommitments
             /\ batch.totalRevealed = Cardinality(revealed)
             /\ Len(batch.revealedTransactions) = batch.totalRevealed
             /\ revealed \subseteq committed
             /\ batch.totalRevealed <= batch.totalCommitments)
  /\ [][\A b \in DOMAIN chain.batches :
          LET old == chain.batches[b]
              new == chain'.batches[b]
          IN /\ b \in DOMAIN chain'.batches
             /\ StatusNumber(new.status) >= StatusNumber(old.status)
             /\ new.status = EXECUTION_PHASE /\ old.status # EXECUTION_PHASE
                  => chain.timestamp >= old.revealPhaseEnd
             /\ new.status = COMPLETED /\ old.status # COMPLETED
                  => /\ old.status = EXECUTION_PHASE
                     /\ lastCall' = Ok("executeBatch")
                     /\ \E indices \in IndexInputs :
                          /\ ChainExecuteBatch(Owner, b, indices)
                          /\ Len(indices) = old.totalRevealed]_vars

\* batch 1 is COMPLETED with two commitments, one of them revealed
C39_Witness ==
  /\ chain.batches[1].status = COMPLETED
  /\ chain.batches[1].totalCommitments = 2
  /\ chain.batches[1].totalRevealed = 1
  /\ lastCall = Ok("executeBatch")

\* the invocations of fn begun so far
Invoked == Len(retrying.invocations) + (IF retrying.pc = "fn" THEN 1 ELSE 0)

\* C40: retry(fn, maxAttempts, delay) with maxAttempts >= 1 invokes fn at most
\* maxAttempts times, never invokes it again after an invocation has
\* succeeded, returns the result of the first successful invocation, and, when
\* all maxAttempts invocations have failed, throws the error of the last one
\* without sleeping after it; a call whose invocations of fn settle ends.
C40_RetryBounded ==
  /\ [](retrying.maxAttempts >= 1 =>
          /\ Invoked <= retrying.maxAttempts
          /\ \A i \in 1..Len(retrying.invocations) :
               retrying.invocations[i][1] = "resolve"
                 => /\ i = Len(retrying.invocations)
                    /\ retrying.pc = "returned"
                    /\ retrying.settled = <<"return", retrying.invocations[i][2]>>
          /\ retrying.pc = "returned"
               => retrying.invocations[Len(retrying.invocations)][1] = "resolve"
          /\ Len(retrying.sleeps) <= retrying.maxAttempts - 1
          /\ retrying.pc = "thrown"
               => /\ Len(retrying.invocations) = retrying.maxAttempts
                  /\ \A i \in 1..retrying.maxAttempts :
                       retrying.invocations[i][1] = "reject"
                  /\ retrying.settled
                       = <<"throw", retrying.invocations[retrying.maxAttempts][2]>>
                  /\ Len(retrying.sleeps) = retrying.maxAttempts - 1)
  /\ (retrying.pc \in {"fn", "sleep"}) ~> (retrying.pc \in {"returned", "thrown"})

\* a call with maxAttempts = 3 has thrown e2 after e1, e1 and e2
C40_Witness ==
  /\ retrying.pc = "thrown"
  /\ retrying.maxAttempts = 3
  /\ retrying.invocations = <<<<"reject", "e1">>, <<"reject", "e1">>, <<"reject", "e2">>>>
  /\ retrying.settled = <<"throw", "e2">>
  /\ retrying.sleeps = <<retrying.delay, 2 * retrying.delay>>
  /\ retrying.delay = DefaultRetryDelay

=============================================================================
